---- MODULE Spec2Model ----
(***************************************************************************)
(* State-machine model of the clawworld viewer client (src/src/index.ts):  *)
(* the connection life cycle, the mirrored views, the action controller    *)
(* (keydown handler), the pointer handlers, the chunk streamer and the     *)
(* per-frame render step.                                                  *)
(*                                                                         *)
(* Text is modelled as a sequence of one-character strings wherever the    *)
(* code inspects its characters (attribute strings, chat text).  A nullable*)
(* value is modelled as a sequence of length at most one (<<>> is null),   *)
(* and a view's iteration order as a sequence of rows.                     *)
(*                                                                         *)
(* The transport changes a view and runs the callbacks registered for the  *)
(* change in one step; the rows of the first subscription result arrive    *)
(* with onApplied.  window.__setPlaying and window.__getConn have no       *)
(* caller in the source and are not modelled.  Camera positions and zoom   *)
(* are exact rationals [n, d].                                             *)
(*                                                                         *)
(* Spec takes every handler on few inputs; SpecControl, SpecInput,         *)
(* SpecStream, SpecChat, SpecMessages and SpecLoop take the handlers of    *)
(* one part of the program on all the inputs that part distinguishes.      *)
(* The specifications of the drawing and decoding functions (SpecStacks,   *)
(* SpecFog, SpecLeaderboard, SpecTags, SpecHpBar) call one function on     *)
(* inputs drawn from small sets and record the call in the variable call.  *)
(***************************************************************************)
EXTENDS Integers, Sequences, FiniteSets, TLC

(***************************************************************************)
(* Program constants                                                       *)
(***************************************************************************)
TILE_SIZE == 32
CHUNK_SIZE == 16
radius == 4
VISIBILITY_RADIUS == 3
\* the age in ms above which render removes a floating message
LIFETIME == 5000
\* the age in ms above which nearbyMessages.onInsert drops a message
MaxMsgAge == 10000

(***************************************************************************)
(* Bounds of the model                                                     *)
(***************************************************************************)
\* greatest lastActionAt a presence row carries
MaxActionAt == 1
\* greatest number of rows in the item view
MaxItems == 1
\* greatest number of wheel events in one run
MaxWheel == 1
\* greatest number of drags started in one run
MaxDrags == 1
\* greatest value of the clock (Date.now()), which starts at 1
MaxNow == 3
\* greatest number of wheel events in one run of SpecZoom
MaxZoomTicks == 3
\* greatest number of rows in the item view in SpecTake
MaxGround == 2
\* greatest number of rows in the item view in SpecStacks
MaxStack == 3
\* greatest number of rows of the leaderboard
MaxEntries == 2
\* greatest number of tokens in an attribute text
MaxTokens == 2
\* greatest number of floating messages
MaxMessages == 2
\* greatest number of steps of the clock in SpecMessages
MaxElapses == 3

(***************************************************************************)
(* Small helpers                                                           *)
(***************************************************************************)
Null == <<>>
Some(v) == <<v>>

Digits == {"0", "1", "2", "3", "4", "5", "6", "7", "8", "9"}

DigitVal(c) ==
  CASE c = "0" -> 0 [] c = "1" -> 1 [] c = "2" -> 2 [] c = "3" -> 3
    [] c = "4" -> 4 [] c = "5" -> 5 [] c = "6" -> 6 [] c = "7" -> 7
    [] c = "8" -> 8 [] c = "9" -> 9

RECURSIVE Pow10(_)
Pow10(k) == IF k = 0 THEN 1 ELSE 10 * Pow10(k - 1)

\* String.prototype.indexOf(c), 1-based; 0 when c does not occur
RECURSIVE IndexFrom(_, _, _)
IndexFrom(s, c, i) ==
  IF i > Len(s) THEN 0
  ELSE IF s[i] = c THEN i
  ELSE IndexFrom(s, c, i + 1)

IndexOf(s, c) == IndexFrom(s, c, 1)

\* String.prototype.split(c)
RECURSIVE Split(_, _)
Split(s, c) ==
  LET i == IndexOf(s, c)
  IN IF i = 0 THEN <<s>>
     ELSE <<SubSeq(s, 1, i - 1)>> \o Split(SubSeq(s, i + 1, Len(s)), c)

\* String.prototype.trim() over the modelled alphabet (the blank is " ")
RECURSIVE TrimStart(_)
TrimStart(s) ==
  IF s # <<>> /\ Head(s) = " " THEN TrimStart(Tail(s)) ELSE s

RECURSIVE TrimEnd(_)
TrimEnd(s) ==
  IF s # <<>> /\ s[Len(s)] = " " THEN TrimEnd(SubSeq(s, 1, Len(s) - 1)) ELSE s

Trim(s) == TrimEnd(TrimStart(s))

\* s with x put at index i
InsertAt(s, i, x) == SubSeq(s, 1, i - 1) \o <<x>> \o SubSeq(s, i, Len(s))

\* s without its i-th element
RemoveAt(s, i) == SubSeq(s, 1, i - 1) \o SubSeq(s, i + 1, Len(s))

(***************************************************************************)
(* Tag helpers: parseTags / getTag / hasTag                                *)
(***************************************************************************)
\* the longest prefix of s made of decimal digits
RECURSIVE DigitPrefix(_)
DigitPrefix(s) ==
  IF s # <<>> /\ Head(s) \in Digits
  THEN <<Head(s)>> \o DigitPrefix(Tail(s))
  ELSE <<>>

RECURSIVE DigitsValue(_)
DigitsValue(ds) ==
  IF ds = <<>> THEN 0
  ELSE 10 * DigitsValue(SubSeq(ds, 1, Len(ds) - 1)) + DigitVal(ds[Len(ds)])

\* parseFloat over the modelled alphabet (blank, sign, digits, ".", other
\* characters; no exponent): the longest numeric prefix after leading blanks,
\* as a fraction n/d, or NaN when there is no such prefix.  A text such as
\* "Infinity" has no digits here and yields NaN, which the caller treats like
\* the non-finite value parseFloat really returns.
ParseFloat(str) ==
  LET s0   == TrimStart(str)
      neg  == s0 # <<>> /\ Head(s0) = "-"
      s1   == IF s0 # <<>> /\ Head(s0) \in {"-", "+"} THEN Tail(s0) ELSE s0
      ip   == DigitPrefix(s1)
      s2   == SubSeq(s1, Len(ip) + 1, Len(s1))
      fp   == IF s2 # <<>> /\ Head(s2) = "." THEN DigitPrefix(Tail(s2)) ELSE <<>>
      mag  == DigitsValue(ip \o fp)
  IN IF Len(ip) + Len(fp) = 0
     THEN [nan |-> TRUE, n |-> 0, d |-> 1]
     ELSE [nan |-> FALSE, n |-> IF neg THEN 0 - mag ELSE mag, d |-> Pow10(Len(fp))]

\* Map.set(k, v)
MapSet(m, k, v) == [x \in DOMAIN m \cup {k} |-> IF x = k THEN v ELSE m[x]]

EmptyMap == [x \in {} |-> TRUE]

\* the value stored for a flag
Flag == [flag |-> TRUE, n |-> 0, d |-> 1]
Num(n, d) == [flag |-> FALSE, n |-> n, d |-> d]

\* the loop body storing the key as a flag when the number does not parse,
\* which C24 tells from ParseToken
ParseTokenKeyFallback(map, token) ==
  IF token = <<>> THEN map
  ELSE LET idx == IndexOf(token, ":")
       IN IF idx = 0 THEN MapSet(map, token, Flag)
          ELSE LET key    == SubSeq(token, 1, idx - 1)
                   valStr == SubSeq(token, idx + 1, Len(token))
                   num    == ParseFloat(valStr)
               IN IF ~num.nan THEN MapSet(map, key, Num(num.n, num.d))
                  ELSE MapSet(map, key, Flag)

\* one iteration of the loop body of parseTags
ParseToken(map, token) ==
  IF token = <<>> THEN map
  ELSE LET idx == IndexOf(token, ":")
       IN IF idx = 0 THEN MapSet(map, token, Flag)
          ELSE LET key    == SubSeq(token, 1, idx - 1)
                   valStr == SubSeq(token, idx + 1, Len(token))
                   num    == ParseFloat(valStr)
               IN IF ~num.nan THEN MapSet(map, key, Num(num.n, num.d))
                  ELSE MapSet(map, token, Flag)

RECURSIVE ParseTokens(_, _)
ParseTokens(map, tokens) ==
  IF tokens = <<>> THEN map
  ELSE ParseTokens(ParseToken(map, Head(tokens)), Tail(tokens))

parseTags(tags) ==
  IF tags = <<>> THEN EmptyMap ELSE ParseTokens(EmptyMap, Split(tags, ","))

hasTag(tags, t) == t \in DOMAIN parseTags(tags)

\* getTag: the number stored for key, as a fraction, or 0
getTag(tags, key) ==
  LET m == parseTags(tags)
  IN IF key \in DOMAIN m /\ ~m[key].flag
     THEN [n |-> m[key].n, d |-> m[key].d]
     ELSE [n |-> 0, d |-> 1]

\* a tag text, written as its characters
BLOCKING == <<"b", "l", "o", "c", "k", "i", "n", "g">>
ROOTED == <<"r", "o", "o", "t", "e", "d">>
BORN_AT == <<"b", "o", "r", "n", "_", "a", "t">>
HP == <<"h", "p">>

\* the token key:value
Tag(key, value) == key \o <<":">> \o value

(***************************************************************************)
(* Exact fractions n/d (d > 0), for the camera's arithmetic                *)
(***************************************************************************)
Abs(n) == IF n < 0 THEN 0 - n ELSE n

RECURSIVE Gcd(_, _)
Gcd(a, b) == IF b = 0 THEN a ELSE Gcd(b, a % b)

Q(n, d) ==
  LET g == Gcd(Abs(n), Abs(d))
      s == IF d < 0 THEN 0 - 1 ELSE 1
  IN [n |-> (s * n) \div g, d |-> (s * d) \div g]

QInt(k) == [n |-> k, d |-> 1]
QMul(a, b) == Q(a.n * b.n, a.d * b.d)
QDiv(a, b) == Q(a.n * b.d, a.d * b.n)
QSub(a, b) == Q(a.n * b.d - b.n * a.d, a.d * b.d)
QLess(a, b) == a.n * b.d < b.n * a.d
QMax(a, b) == IF QLess(a, b) THEN b ELSE a
QMin(a, b) == IF QLess(b, a) THEN b ELSE a
QAdd(a, b) == Q(a.n * b.d + b.n * a.d, a.d * b.d)
\* Math.floor and Math.ceil
QFloor(a) == a.n \div a.d
QCeil(a) == 0 - ((0 - a.n) \div a.d)

(***************************************************************************)
(* Inputs                                                                  *)
(***************************************************************************)
\* the presence rows at the given cells with lastActionAt up to maxAt
AgentRowsAt(cells, maxAt) ==
  {[x |-> c[1], y |-> c[2], lastActionAt |-> t] : c \in cells, t \in 0..maxAt}

\* cells of presence rows: two in chunk (0,0), one left of the origin in chunk
\* (-1,0), one in chunk (1,-2)
AgentCells == {<<0, 0>>, <<15, 15>>, <<-1, 0>>, <<16, -17>>}

\* rows of the item view: ground items at the origin (plain, rooted), an item
\* carried by the caller, an item carried by somebody else
ItemPool ==
  { [id |-> 1, x |-> 0, y |-> 0, carrier |-> "none", tags |-> <<>>],
    [id |-> 2, x |-> 0, y |-> 0, carrier |-> "none", tags |-> ROOTED],
    [id |-> 3, x |-> 0, y |-> 0, carrier |-> "me", tags |-> <<>>],
    [id |-> 4, x |-> 0, y |-> 0, carrier |-> "other", tags |-> <<>>] }

NorthKeys == {"w", "W", "ArrowUp"}
SouthKeys == {"s", "S", "ArrowDown"}
WestKeys == {"a", "A", "ArrowLeft"}
EastKeys == {"d", "D", "ArrowRight"}
DirKeys == NorthKeys \cup SouthKeys \cup WestKeys \cup EastKeys

\* keys: "x" stands for a key the handler ignores and "Backquote" for the
\* backquote character, which a string here cannot hold
Keys ==
  DirKeys \cup {"f", "F", " ", "Escape", "e", "E", "q", "Q", "0", "Backquote",
                "1", "2", "8", "9", "l", "L", "Enter", "x"}

\* texts typed into the chat input
ChatTexts == {<<" ">>, <<"h", "i", " ">>, <<" ", "a", " ", "b">>}

\* answers to the name prompt ("" also stands for a cancelled prompt)
Names == {"", "bob"}

\* pointer positions (clientX, clientY)
Points == {<<0, 0>>, <<32, 16>>}

\* slots the HUD is clicked on
HudSlots == {0, 1, 2}

\* Inputs of Spec, which takes every step of the program on few inputs
CoreRows == AgentRowsAt({<<0, 0>>, <<16, -17>>}, 0)
CoreKeys == [key : {"w", "f", "Enter"}, repeat : {FALSE}]
CoreItems == {item \in ItemPool : item.carrier = "me"}
CoreTexts == {<<"h", "i", " ">>}
CoreSlots == {1}
CoreDown == {<<0, 0>>}
CoreMove == {<<32, 16>>}

\* Inputs of SpecControl, the action controller: the directional keys, the
\* use keys, Escape, Enter and an ignored key, some of them held down
ControlRows == AgentRowsAt({<<0, 0>>, <<15, 15>>}, 0)
ControlKeys ==
  [key : DirKeys \cup {"f", "F", " ", "Escape", "Enter", "x"}, repeat : {FALSE}]
    \cup [key : {"w", "f", "Escape", "Enter"}, repeat : {TRUE}]
ControlItems == {item \in ItemPool : item.carrier # "none"}

\* Inputs of SpecChat, chat composition: a key of every branch of the keydown
\* handler, pressed or held down
ChatKeys ==
  [key : {"w", "f", " ", "e", "q", "0", "1", "2", "l", "Enter", "Escape", "x"},
   repeat : BOOLEAN]

\* Inputs of SpecInput, keyboard and pointer next to the presence view
InputKeys == [key : {"w"}, repeat : {FALSE}]

\* Inputs of SpecCooldown: rows that differ in cell, in lastActionAt, or both
CooldownRows == AgentRowsAt({<<0, 0>>, <<1, 0>>}, MaxActionAt)

\* Inputs of SpecZoom: the zoom factors a run starts at
ZoomStarts == {QInt(1), QInt(4), Q(1, 4)}

\* Inputs of SpecTake: items on the ground at (0,0) with and without flags,
\* an item on the ground at (1,0), carried items; the agent at either cell
TakeRows == AgentRowsAt({<<0, 0>>, <<1, 0>>}, 0)
TakePool ==
  ItemPool \cup
    { [id |-> 5, x |-> 0, y |-> 0, carrier |-> "none", tags |-> <<>>],
      [id |-> 6, x |-> 0, y |-> 0, carrier |-> "none", tags |-> BLOCKING],
      [id |-> 7, x |-> 1, y |-> 0, carrier |-> "none", tags |-> <<>>] }
TakeKeys ==
  [key : {"e", "E", "x"}, repeat : {FALSE}] \cup {[key |-> "e", repeat |-> TRUE]}

\* Inputs of SpecStream, the chunk streamer on all cells
StreamRows == AgentRowsAt(AgentCells, 0)

\* Inputs of SpecMessages.  The clock steps by 5000 or 5001 ms from 1 up to
\* MaxClock, so that messages reach the ages 5000 and 5001; messages arrive
\* at the times of ArrivalTimes, the first three values of the clock, which
\* leaves the clock room to pass their lifetime
ClockSteps == {LIFETIME, LIFETIME + 1}
MaxClock == 1 + MaxElapses * (LIFETIME + 1)
ArrivalTimes == {1, 1 + LIFETIME, 2 + LIFETIME}
\* rows of nearbyMessages, sent sentAgo ms before they arrive
MessageRows ==
  [senderName : {"bob"}, text : {"hi"}, x : {0}, y : {0},
   sentAgo : {0, MaxMsgAge, MaxMsgAge + 1}]

\* window sizes (innerWidth, innerHeight)
Windows == {<<256, 256>>, <<320, 64>>, <<64, 32>>, <<128, 128>>}

\* Inputs of SpecStacks: items 3, 5 and 8 on the ground at (0,0), item 4
\* carried, item 7 on the ground at (1,0), item 9 on the ground at (9,0),
\* which a window of 256 by 256 at zoom 1 does not show
StackPool ==
  { [id |-> 3, x |-> 0, y |-> 0, carrier |-> "none", tags |-> <<>>],
    [id |-> 5, x |-> 0, y |-> 0, carrier |-> "none", tags |-> <<>>],
    [id |-> 8, x |-> 0, y |-> 0, carrier |-> "none", tags |-> <<>>],
    [id |-> 4, x |-> 0, y |-> 0, carrier |-> "me", tags |-> <<>>],
    [id |-> 7, x |-> 1, y |-> 0, carrier |-> "none", tags |-> <<>>],
    [id |-> 9, x |-> 9, y |-> 0, carrier |-> "none", tags |-> <<>>] }
StackWindows == {<<256, 256>>}

\* Inputs of SpecTags: the tokens "", x, x:abc, x:1, x:2.5, x:-3, x:1a, :7, y:
\* and x:a:1
TagTokens ==
  { <<>>,
    <<"x">>,
    <<"x", ":", "a", "b", "c">>,
    <<"x", ":", "1">>,
    <<"x", ":", "2", ".", "5">>,
    <<"x", ":", "-", "3">>,
    <<"x", ":", "1", "a">>,
    <<":", "7">>,
    <<"y", ":">>,
    <<"x", ":", "a", ":", "1">> }

\* Inputs of SpecHpBar: the tokens "", hp, hp:0, hp:25, hp:50, hp:100,
\* hp:150, hp:-10, hp:2.5 and x:1
HpTokens ==
  { <<>>,
    HP,
    Tag(HP, <<"0">>),
    Tag(HP, <<"2", "5">>),
    Tag(HP, <<"5", "0">>),
    Tag(HP, <<"1", "0", "0">>),
    Tag(HP, <<"1", "5", "0">>),
    Tag(HP, <<"-", "1", "0">>),
    Tag(HP, <<"2", ".", "5">>),
    <<"x", ":", "1">> }

\* the sequences of at most max tokens of pool
TokenSeqs(pool, max) == UNION {[1..n -> pool] : n \in 0..max}

\* the tokens joined by commas
RECURSIVE JoinTokens(_)
JoinTokens(tokens) ==
  IF tokens = <<>> THEN <<>>
  ELSE IF Len(tokens) = 1 THEN tokens[1]
  ELSE tokens[1] \o <<",">> \o JoinTokens(Tail(tokens))

\* Inputs of SpecLeaderboard.  The time of the call, in ms
LeaderNow == 200000
\* rows of the presence view: none, agent A born at 80000 (alive for 120000),
\* agent A with born_at 0
LeaderMine ==
  { <<>>,
    <<[name |-> "A", tags |-> Tag(BORN_AT, <<"8", "0", "0", "0", "0">>)]>>,
    <<[name |-> "A", tags |-> Tag(BORN_AT, <<"0">>)]>> }
\* rows of nearbyAgents: none, agent C born at 110000 (alive for 90000)
LeaderNearby ==
  { <<>>,
    <<[name |-> "C",
       tags |-> Tag(HP, <<"5", "0">>) \o <<",">>
                  \o Tag(BORN_AT, <<"1", "1", "0", "0", "0", "0">>)]>> }
\* rows of the leaderboard
LeaderPool ==
  { [name |-> "A", bestStreak |-> 50000],
    [name |-> "B", bestStreak |-> 90000],
    [name |-> "B", bestStreak |-> 200000],
    [name |-> "C", bestStreak |-> 10000],
    [name |-> "D", bestStreak |-> 120000] }

\* the iteration orders of a leaderboard of at most max rows of pool
EntryViews(pool, max) ==
  UNION {{s \in [1..n -> pool] : \A i, j \in 1..n : i # j => s[i] # s[j]} :
           n \in 0..max}

\* the iteration orders of an item view of at most max rows of pool
ItemViews(pool, max) ==
  UNION {{s \in [1..n -> pool] : \A i, j \in 1..n : i # j => s[i].id # s[j].id} :
           n \in 0..max}

(***************************************************************************)
(* State                                                                   *)
(***************************************************************************)
VARIABLES
  conn,          \* conn is not null
  link,          \* the transport's state of the connection conn holds
  token,         \* localStorage holds clawworld_token
  savedToken,    \* savedToken of the connect() call whose attempt is under way
  retryPending,  \* the setTimeout of onConnectError has not fired yet
  myIdentity,    \* myIdentity is not null
  frames,        \* animation frames requested and not yet run
  myAgentView,   \* rows of conn.db.myAgent, in iteration order
  nearbyItems,   \* rows of conn.db.nearbyItems, in iteration order
  playing,
  myAgentCache,
  selectedSlot,
  chatOpen,
  chatText,
  useMode,
  showItemLabels,
  camX,
  camY,
  zoom,
  dragging,
  dragStartX,
  dragStartY,
  camStartX,
  camStartY,
  wheelTicks,    \* wheel events handled so far
  drags,         \* drags started so far (bounded by MaxDrags)
  loadedChunks,
  now,           \* Date.now()
  lastActionTime,
  floatingMessages,
  call,          \* the last call of a drawing or decoding function: its name,
                 \* its arguments and its result
  ev,            \* the event handled by the last step
  out,           \* the intents the last step sent, in order
  generated,     \* chunks (chunkX, chunkY) a generateChunk intent was sent for
  regenerated,   \* chunks a generateChunk intent was sent for more than once
  fociDone       \* focus chunks ensureChunksLoaded has run for

connVars == <<conn, link, token, savedToken, retryPending, myIdentity, frames>>
viewVars == <<myAgentView, nearbyItems>>
agentVars == <<playing, myAgentCache>>
ctlVars == <<selectedSlot, chatOpen, chatText, useMode, showItemLabels>>
camVars == <<camX, camY, zoom, dragging, dragStartX, dragStartY, camStartX,
             camStartY, wheelTicks, drags>>
chunkVars == <<loadedChunks, generated, regenerated, fociDone>>
timeVars == <<now, lastActionTime>>
sceneVars == <<floatingMessages, call>>
obsVars == <<ev, out>>

vars == <<connVars, viewVars, agentVars, ctlVars, camVars, chunkVars, timeVars,
          sceneVars, obsVars>>

(***************************************************************************)
(* Intents (calls on conn.reducers)                                        *)
(***************************************************************************)
MoveIntent(direction) == [type |-> "move", direction |-> direction]
TakeIntent(itemId) == [type |-> "take", itemId |-> itemId]
DropIntent(itemId) == [type |-> "drop", itemId |-> itemId]
UseIntent(itemId, target) == [type |-> "use", itemId |-> itemId, target |-> target]
SayIntent(text) == [type |-> "say", text |-> text]
RegisterIntent(name) == [type |-> "register", name |-> name]
GenerateChunkIntent(chunkX, chunkY) ==
  [type |-> "generateChunk", chunkX |-> chunkX, chunkY |-> chunkY]

(***************************************************************************)
(* getMyAgent, getInventory                                                *)
(***************************************************************************)
getMyAgent == myAgentCache

RECURSIVE CarriedBy(_, _)
CarriedBy(items, who) ==
  IF items = <<>> THEN <<>>
  ELSE (IF Head(items).carrier = who THEN <<Head(items)>> ELSE <<>>)
         \o CarriedBy(Tail(items), who)

getInventory ==
  IF ~conn \/ ~myIdentity THEN <<>> ELSE CarriedBy(nearbyItems, "me")

(***************************************************************************)
(* Chunk loading                                                           *)
(***************************************************************************)
\* a / b rounded toward zero, which C8 tells from Floor at cell -1
FloorTruncating(a, b) == IF a < 0 THEN 0 - ((0 - a) \div b) ELSE a \div b

\* Math.floor(a / b) for b > 0
Floor(a, b) == a \div b

\* the template literal: x, a comma, y
ChunkKey(x, y) == ToString(x) \o "," \o ToString(y)

\* the inner loop without loadedChunks.add(key), which C5 tells from ColumnLoop
RECURSIVE ColumnLoopForgetful(_, _, _, _, _)
ColumnLoopForgetful(acc, cx, cy, dx, dy) ==
  IF dx > radius THEN acc
  ELSE IF ChunkKey(cx + dx, cy + dy) \notin acc.loaded
  THEN ColumnLoopForgetful(
         [loaded |-> acc.loaded,
          sent   |-> Append(acc.sent, GenerateChunkIntent(cx + dx, cy + dy))],
         cx, cy, dx + 1, dy)
  ELSE ColumnLoopForgetful(acc, cx, cy, dx + 1, dy)

\* for (let dx = ...; dx <= radius; dx++) { ... }: acc holds loadedChunks and
\* the intents sent so far (a is the value of acc, taken once)
RECURSIVE ColumnLoop(_, _, _, _, _)
ColumnLoop(acc, cx, cy, dx, dy) ==
  CHOOSE res \in
    { IF dx > radius THEN a
      ELSE IF ChunkKey(cx + dx, cy + dy) \notin a.loaded
      THEN ColumnLoop(
             [loaded |-> a.loaded \cup {ChunkKey(cx + dx, cy + dy)},
              sent   |-> Append(a.sent, GenerateChunkIntent(cx + dx, cy + dy))],
             cx, cy, dx + 1, dy)
      ELSE ColumnLoop(a, cx, cy, dx + 1, dy) : a \in {acc} } : TRUE

\* the outer loop with dy < radius for dy <= radius, which C6 tells from RowLoop
RECURSIVE RowLoopShort(_, _, _, _)
RowLoopShort(acc, cx, cy, dy) ==
  IF dy >= radius THEN acc
  ELSE RowLoopShort(ColumnLoop(acc, cx, cy, 0 - radius, dy), cx, cy, dy + 1)

\* for (let dy = ...; dy <= radius; dy++) { ... }
RECURSIVE RowLoop(_, _, _, _)
RowLoop(acc, cx, cy, dy) ==
  IF dy > radius THEN acc
  ELSE RowLoop(ColumnLoop(acc, cx, cy, 0 - radius, dy), cx, cy, dy + 1)

\* ensureChunksLoaded keeping the marks of the current window only, which C7
\* tells from ensureChunksLoaded
ensureChunksLoadedEvicting(loaded, centerX, centerY) ==
  IF ~conn THEN [loaded |-> loaded, sent |-> <<>>]
  ELSE LET kept == RowLoop([loaded |-> {}, sent |-> <<>>],
                           Floor(centerX, CHUNK_SIZE), Floor(centerY, CHUNK_SIZE),
                           0 - radius).loaded
       IN [loaded |-> kept,
           sent   |-> RowLoop([loaded |-> loaded \cap kept, sent |-> <<>>],
                              Floor(centerX, CHUNK_SIZE), Floor(centerY, CHUNK_SIZE),
                              0 - radius).sent]

\* the chunks marked after the call and the intents sent by it
ensureChunksLoaded(loaded, centerX, centerY) ==
  IF ~conn THEN [loaded |-> loaded, sent |-> <<>>]
  ELSE RowLoop([loaded |-> loaded, sent |-> <<>>],
               Floor(centerX, CHUNK_SIZE), Floor(centerY, CHUNK_SIZE), 0 - radius)

(***************************************************************************)
(* Polling fallback and render                                             *)
(***************************************************************************)
\* cache and playing after the call on the view's rows; died: showDeathScreen
\* was called; advanced: lastActionTime was set to Date.now()
checkMyAgentFromView(view, cache, play) ==
  LET foundAgent == IF view = <<>> THEN Null ELSE Some(Head(view))
  IN IF ~conn
       THEN [cache |-> cache, playing |-> play, died |-> FALSE, advanced |-> FALSE]
     ELSE IF foundAgent # Null /\ cache = Null
       THEN [cache |-> foundAgent, playing |-> TRUE, died |-> FALSE,
             advanced |-> FALSE]
     ELSE IF foundAgent = Null /\ cache # Null
       THEN [cache |-> Null, playing |-> FALSE, died |-> TRUE, advanced |-> FALSE]
     ELSE IF foundAgent # Null /\ cache # Null
       THEN [cache |-> foundAgent, playing |-> play, died |-> FALSE,
             advanced |-> foundAgent[1].lastActionAt > cache[1].lastActionAt]
     ELSE [cache |-> cache, playing |-> play, died |-> FALSE, advanced |-> FALSE]

\* render looking at the origin whatever the agent, which C12 tells from
\* FocusCell
FocusCellOrigin(agent, play) == <<0, 0>>

\* the cell render passes to ensureChunksLoaded
FocusCell(agent, play) ==
  IF agent # Null /\ play THEN <<agent[1].x, agent[1].y>> ELSE <<0, 0>>

\* the camera on the corner of the agent's cell, which C16 tells from
\* FocusPoint
FocusPointCorner(agent, play) ==
  IF agent # Null /\ play
  THEN <<QInt(agent[1].x * TILE_SIZE), QInt(agent[1].y * TILE_SIZE)>>
  ELSE <<QInt(0), QInt(0)>>

\* camX and camY as render sets them
FocusPoint(agent, play) ==
  IF agent # Null /\ play
  THEN <<QInt(agent[1].x * TILE_SIZE + TILE_SIZE \div 2),
         QInt(agent[1].y * TILE_SIZE + TILE_SIZE \div 2)>>
  ELSE <<QInt(0), QInt(0)>>

\* the loop over floatingMessages from its last index i down, at time t, with a
\* removal stepping over the index below it, which C26 tells from PruneLoop
RECURSIVE PruneLoopSkipping(_, _, _)
PruneLoopSkipping(msgs, i, t) ==
  IF i < 1 THEN msgs
  ELSE IF t - msgs[i].time > LIFETIME
       THEN PruneLoopSkipping(RemoveAt(msgs, i), i - 2, t)
       ELSE PruneLoopSkipping(msgs, i - 1, t)

\* the loop over floatingMessages from index i down, at time t: a message of
\* age above 5000 is spliced out
RECURSIVE PruneLoop(_, _, _)
PruneLoop(msgs, i, t) ==
  IF i < 1 THEN msgs
  ELSE IF t - msgs[i].time > LIFETIME
       THEN PruneLoop(RemoveAt(msgs, i), i - 1, t)
       ELSE PruneLoop(msgs, i - 1, t)

\* floatingMessages after render, run at time t
PruneMessages(msgs, t) == PruneLoop(msgs, Len(msgs), t)

\* render without its last statement, which C27 tells from
\* requestAnimationFrame
requestAnimationFrameDropped(pending) == pending

\* the frame requests pending after requestAnimationFrame(render)
requestAnimationFrame(pending) == pending + 1

\* render() past its conn check, called with the given cache and playing while
\* conn.db.myAgent holds the rows of view
render(view, cache, play) ==
  LET polled == checkMyAgentFromView(view, cache, play)
      focus  == FocusCell(polled.cache, polled.playing)
      point  == FocusPoint(polled.cache, polled.playing)
      chunks == ensureChunksLoaded(loadedChunks, focus[1], focus[2])
  IN [cache    |-> polled.cache,
      playing  |-> polled.playing,
      died     |-> polled.died,
      advanced |-> polled.advanced,
      camX     |-> point[1],
      camY     |-> point[2],
      focus    |-> focus,
      loaded   |-> chunks.loaded,
      sent     |-> chunks.sent,
      messages |-> PruneMessages(floatingMessages, now)]

(***************************************************************************)
(* Controls: the keydown handler                                           *)
(***************************************************************************)
\* the controller state a key handler starts from, with nothing sent yet
Ctl ==
  [selectedSlot |-> selectedSlot, chatOpen |-> chatOpen, chatText |-> chatText,
   useMode |-> useMode, showItemLabels |-> showItemLabels, sent |-> <<>>]

\* Direction with north and south exchanged, which C1 tells from Direction
DirectionMirrored(key) ==
  IF key \in NorthKeys THEN "south"
  ELSE IF key \in SouthKeys THEN "north"
  ELSE IF key \in WestKeys THEN "west"
  ELSE IF key \in EastKeys THEN "east"
  ELSE ""

\* the direction a key stands for, "" for any other key
Direction(key) ==
  IF key \in NorthKeys THEN "north"
  ELSE IF key \in SouthKeys THEN "south"
  ELSE IF key \in WestKeys THEN "west"
  ELSE IF key \in EastKeys THEN "east"
  ELSE ""

\* e.key >= '1' && e.key <= '8' (string comparison): of the modelled keys,
\* the one-character digits 1..8; parseInt gives the digit
SlotKeys == {"1", "2", "3", "4", "5", "6", "7", "8"}

\* the use target a key resolves to while useMode is set, "" for none
UseTarget(key) ==
  IF Direction(key) # "" THEN Direction(key)
  ELSE IF key \in {"f", "F"} THEN "here"
  ELSE IF key = " " THEN "self"
  ELSE ""

\* inv[selectedSlot], the item one position further, which C3 tells from
\* SlotItem
SlotItemNext(slot) ==
  LET inv == getInventory
  IN IF slot >= 0 /\ slot < Len(inv) THEN Some(inv[slot + 1]) ELSE Null

\* inv[selectedSlot - 1], or null
SlotItem(slot) ==
  LET inv == getInventory
  IN IF slot - 1 >= 0 /\ slot - 1 < Len(inv) THEN Some(inv[slot]) ELSE Null

\* the itemId the use intent carries
UseItemId ==
  IF selectedSlot > 0
  THEN (IF SlotItem(selectedSlot) # Null THEN SlotItem(selectedSlot)[1].id ELSE 0)
  ELSE 0

\* the chat branch sending the text as typed, which C20 tells from ChatKey
ChatKeyRaw(e) ==
  IF e.key = "Enter"
  THEN [Ctl EXCEPT !.sent = IF chatText # <<>> /\ conn
                            THEN <<SayIntent(chatText)>> ELSE <<>>,
                   !.chatText = <<>>,
                   !.chatOpen = FALSE]
  ELSE IF e.key = "Escape"
  THEN [Ctl EXCEPT !.chatText = <<>>, !.chatOpen = FALSE]
  ELSE Ctl

\* the chat branch
ChatKey(e) ==
  IF e.key = "Enter"
  THEN [Ctl EXCEPT !.sent = IF Trim(chatText) # <<>> /\ conn
                            THEN <<SayIntent(Trim(chatText))>> ELSE <<>>,
                   !.chatText = <<>>,
                   !.chatOpen = FALSE]
  ELSE IF e.key = "Escape"
  THEN [Ctl EXCEPT !.chatText = <<>>, !.chatOpen = FALSE]
  ELSE Ctl

\* the useMode branch without its Escape case, which C2 tells from UseKey
UseKeySticky(e) ==
  LET target == UseTarget(e.key)
  IN IF target # ""
     THEN [Ctl EXCEPT !.sent = <<UseIntent(UseItemId, target)>>, !.useMode = FALSE]
     ELSE Ctl

\* the useMode branch
UseKey(e) ==
  LET target == UseTarget(e.key)
  IN IF target # ""
     THEN [Ctl EXCEPT !.sent = <<UseIntent(UseItemId, target)>>, !.useMode = FALSE]
     ELSE IF e.key = "Escape" THEN [Ctl EXCEPT !.useMode = FALSE]
     ELSE Ctl

\* the items the take key chooses among, in the view's iteration order
RECURSIVE Takeable(_, _)
Takeable(items, agent) ==
  IF items = <<>> THEN <<>>
  ELSE LET item == Head(items)
       IN (IF item.carrier = "none" /\ item.x = agent.x /\ item.y = agent.y
              /\ ~hasTag(item.tags, BLOCKING) /\ ~hasTag(item.tags, ROOTED)
           THEN <<item>> ELSE <<>>) \o Takeable(Tail(items), agent)

\* insert item into a sequence sorted by descending id, after its equals
RECURSIVE InsertDesc(_, _)
InsertDesc(sorted, item) ==
  IF sorted = <<>> THEN <<item>>
  ELSE IF Head(sorted).id >= item.id
       THEN <<Head(sorted)>> \o InsertDesc(Tail(sorted), item)
       ELSE <<item>> \o sorted

\* the take key without the sort, which C19 tells from SortDesc
SortDescNone(items) == items

\* takeable.sort((a, b) => Number(b.id - a.id)), a stable sort
RECURSIVE SortDesc(_)
SortDesc(items) ==
  IF items = <<>> THEN <<>>
  ELSE InsertDesc(SortDesc(SubSeq(items, 1, Len(items) - 1)), items[Len(items)])

TakeKey ==
  LET agent == getMyAgent
  IN IF agent = Null THEN Ctl
     ELSE LET takeable == SortDesc(Takeable(nearbyItems, agent[1]))
          IN IF Len(takeable) > 0
             THEN [Ctl EXCEPT !.sent = <<TakeIntent(takeable[1].id)>>]
             ELSE Ctl

DropKey ==
  IF selectedSlot > 0 /\ SlotItem(selectedSlot) # Null
  THEN [Ctl EXCEPT !.sent = <<DropIntent(SlotItem(selectedSlot)[1].id)>>]
  ELSE Ctl

\* the branch for a key pressed while playing, chat closed, useMode not set
PlayKey(e) ==
  IF Direction(e.key) # ""
  THEN [Ctl EXCEPT !.sent = <<MoveIntent(Direction(e.key))>>]
  ELSE IF e.key \in {"e", "E"} THEN TakeKey
  ELSE IF e.key \in {"q", "Q"} THEN DropKey
  ELSE IF e.key \in {"f", "F"} THEN [Ctl EXCEPT !.useMode = TRUE]
  ELSE IF e.key \in {"0", "Backquote"} THEN [Ctl EXCEPT !.selectedSlot = 0]
  ELSE IF e.key \in SlotKeys
  THEN [Ctl EXCEPT !.selectedSlot = DigitVal(e.key)]
  ELSE IF e.key \in {"l", "L"}
  THEN [Ctl EXCEPT !.showItemLabels = ~showItemLabels]
  ELSE IF e.key = "Enter" THEN [Ctl EXCEPT !.chatOpen = TRUE]
  ELSE Ctl

\* a keydown handler whose chat branch returns for Enter and Escape only, so
\* that other keys reach the branches below it, which C30 tells from keydown
keydownThroughChat(e) ==
  IF chatOpen /\ e.key \in {"Enter", "Escape"} THEN ChatKey(e)
  ELSE IF ~playing \/ ~conn THEN Ctl
  ELSE IF e.repeat THEN Ctl
  ELSE IF useMode THEN UseKey(e)
  ELSE PlayKey(e)

\* the controller state after the keydown handler, and the intents it sent
keydown(e) ==
  IF chatOpen THEN ChatKey(e)
  ELSE IF ~playing \/ ~conn THEN Ctl
  ELSE IF e.repeat THEN Ctl
  ELSE IF useMode THEN UseKey(e)
  ELSE PlayKey(e)

(***************************************************************************)
(* What a step is seen to do                                               *)
(***************************************************************************)
\* an event, with nothing recorded of the state it found
Event(kind) ==
  [kind |-> kind, key |-> "", repeat |-> FALSE, playing |-> FALSE,
   chatOpen |-> FALSE, useMode |-> FALSE, chatText |-> <<>>, slot |-> 0,
   focus |-> <<0, 0>>, first |-> FALSE, again |-> FALSE,
   camX |-> QInt(0), camY |-> QInt(0), cached |-> FALSE, deathScreens |-> 0,
   messages |-> <<>>, turn |-> FALSE]

\* no drawing or decoding function has been called
NoCall == [fn |-> "none"]

\* a key press, with the controller state it found
KeyEvent(e) ==
  [Event("keydown") EXCEPT !.key = e.key, !.repeat = e.repeat,
                           !.playing = playing, !.chatOpen = chatOpen,
                           !.useMode = useMode, !.chatText = chatText,
                           !.slot = selectedSlot]

\* a pointer event, with the camera focus it found
PointerEvent(kind) ==
  [Event(kind) EXCEPT !.camX = camX, !.camY = camY]

\* the chunk a cell coordinate lies in: the k with 16k <= c < 16k + 16
ChunkOf(c) == CHOOSE k \in -8..8 : 16 * k <= c /\ c < 16 * k + 16

\* a run of render, with its focus cell and what it found: the camera focus,
\* no chunk requested yet (first), the chunk of its focus cell already
\* requested for (again), an agent cached (cached), the floating messages
\* (messages); turn tells a frame from the frame that ran just before it
FrameEvent(kind, focus) ==
  [Event(kind) EXCEPT !.focus = focus,
                      !.messages = floatingMessages,
                      !.first = loadedChunks = {},
                      !.again = <<ChunkOf(focus[1]), ChunkOf(focus[2])>> \in fociDone,
                      !.camX = camX, !.camY = camY,
                      !.cached = myAgentCache # Null,
                      !.turn = IF kind = "frame" /\ ev.kind = "frame"
                               THEN ~ev.turn ELSE FALSE]

\* the chunks named by the generateChunk intents of a sequence
ChunksOf(sent) ==
  {<<sent[i].chunkX, sent[i].chunkY>> :
     i \in {j \in DOMAIN sent : sent[j].type = "generateChunk"}}

\* the chunks named more than once in a sequence of generateChunk intents
TwiceIn(sent) ==
  LET named(i) == <<sent[i].chunkX, sent[i].chunkY>>
      gen == {i \in DOMAIN sent : sent[i].type = "generateChunk"}
  IN {named(i) : i \in {a \in gen : \E b \in gen \ {a} : named(a) = named(b)}}

\* a step that is not a run of render sends the intents of sent
Sends(event, sent) ==
  /\ ev' = event
  /\ out' = sent
  /\ UNCHANGED <<generated, regenerated, fociDone>>

\* a step that ran render, with result r
Rendered(kind, r) ==
  /\ ev' = [FrameEvent(kind, r.focus) EXCEPT
              !.deathScreens = IF r.died THEN 1 ELSE 0]
  /\ out' = r.sent
  /\ generated' = generated \cup ChunksOf(r.sent)
  /\ regenerated' =
       regenerated \cup (ChunksOf(r.sent) \cap generated) \cup TwiceIn(r.sent)
  /\ fociDone' = fociDone \cup {<<ChunkOf(r.focus[1]), ChunkOf(r.focus[2])>>}
  /\ playing' = r.playing
  /\ myAgentCache' = r.cache
  /\ camX' = r.camX
  /\ camY' = r.camY
  /\ loadedChunks' = r.loaded
  /\ lastActionTime' = IF r.advanced THEN now ELSE lastActionTime
  /\ floatingMessages' = r.messages

(***************************************************************************)
(* Initial state: the module's top-level declarations                      *)
(***************************************************************************)
InitAt(zoom0) ==
  /\ conn = FALSE
  /\ link = "none"
  /\ token \in BOOLEAN
  /\ savedToken = FALSE
  /\ retryPending = FALSE
  /\ myIdentity = FALSE
  /\ frames = 0
  /\ myAgentView = <<>>
  /\ nearbyItems = <<>>
  /\ playing = FALSE
  /\ myAgentCache = Null
  /\ selectedSlot = 0
  /\ chatOpen = FALSE
  /\ chatText = <<>>
  /\ useMode = FALSE
  /\ showItemLabels = FALSE
  /\ camX = QInt(0)
  /\ camY = QInt(0)
  /\ zoom = zoom0
  /\ dragging = FALSE
  /\ dragStartX = 0
  /\ dragStartY = 0
  /\ camStartX = QInt(0)
  /\ camStartY = QInt(0)
  /\ wheelTicks = 0
  /\ drags = 0
  /\ loadedChunks = {}
  /\ now = 1
  /\ lastActionTime = 0
  /\ floatingMessages = <<>>
  /\ call = NoCall
  /\ ev = Event("init")
  /\ out = <<>>
  /\ generated = {}
  /\ regenerated = {}
  /\ fociDone = {}

\* let zoom = 1
Init == InitAt(QInt(1))

\* The state before load with the zoom at 1 or at a limit.  The limits are
\* reached from 1: 15 wheel events up give 1.1^15 > 4, which is clamped to 4,
\* and 14 events down give 0.9^14 < 1/4, which is clamped to 1/4.  The powers
\* on the way do not fit the integers of the model checker, so SpecZoom starts
\* at their end.
InitZoom == \E zoom0 \in ZoomStarts : InitAt(zoom0)

(***************************************************************************)
(* Connection                                                              *)
(***************************************************************************)
\* connect(): a new connection is built; its views are empty
connect ==
  /\ savedToken' = token
  /\ conn' = TRUE
  /\ link' = "connecting"
  /\ myAgentView' = <<>>
  /\ nearbyItems' = <<>>

\* the window's load event
Load ==
  /\ ~conn
  /\ connect
  /\ Sends(Event("load"), <<>>)
  /\ UNCHANGED <<token, retryPending, myIdentity, frames, agentVars, ctlVars,
                 camVars, loadedChunks>>
  /\ UNCHANGED <<timeVars, sceneVars>>

\* onConnect: identity and token stored, callbacks set up, views subscribed;
\* the attempt is over, and its savedToken is not read again
OnConnect ==
  /\ link = "connecting"
  /\ myIdentity' = TRUE
  /\ token' = TRUE
  /\ savedToken' = FALSE
  /\ link' = "open"
  /\ Sends(Event("connect"), <<>>)
  /\ UNCHANGED <<conn, retryPending, frames, viewVars, agentVars, ctlVars,
                 camVars, loadedChunks>>
  /\ UNCHANGED <<timeVars, sceneVars>>

\* cache and playing after the loop of onApplied over the presence view
AppliedAgent(view) ==
  IF view # <<>>
  THEN [cache |-> Some(view[1]), playing |-> TRUE]
  ELSE [cache |-> myAgentCache, playing |-> playing]

\* onApplied: the subscription's first rows are in the views (the presence
\* view holds no row or one of rows), an agent found there is cached, and
\* render() runs
OnApplied(rows) ==
  /\ link = "open"
  /\ link' = "subscribed"
  /\ \E view \in {<<>>} \cup {<<a>> : a \in rows} :
       /\ myAgentView' = view
       /\ \E r \in {render(view, AppliedAgent(view).cache,
                            AppliedAgent(view).playing)} :
            Rendered("applied", r)
  /\ frames' = requestAnimationFrame(frames)
  /\ UNCHANGED <<conn, token, savedToken, retryPending, myIdentity, nearbyItems,
                 ctlVars, zoom, dragging, dragStartX, dragStartY, camStartX,
                 camStartY, wheelTicks, drags>>
  /\ UNCHANGED <<now, call>>

\* onConnectError retrying without removing the saved token, which C31 tells
\* from OnConnectError
OnConnectErrorKeepingToken ==
  /\ link = "connecting"
  /\ link' = "failed"
  /\ token' = token
  /\ retryPending' = savedToken
  /\ savedToken' = FALSE
  /\ Sends(Event("connectError"), <<>>)
  /\ UNCHANGED <<conn, myIdentity, frames, viewVars, agentVars, ctlVars,
                 camVars, loadedChunks>>
  /\ UNCHANGED <<timeVars, sceneVars>>

\* onConnectError: a saved token is removed and connect() retried in 1000 ms
OnConnectError ==
  /\ link = "connecting"
  /\ link' = "failed"
  /\ token' = IF savedToken THEN FALSE ELSE token
  /\ retryPending' = savedToken
  /\ savedToken' = FALSE
  /\ Sends(Event("connectError"), <<>>)
  /\ UNCHANGED <<conn, myIdentity, frames, viewVars, agentVars, ctlVars,
                 camVars, loadedChunks>>
  /\ UNCHANGED <<timeVars, sceneVars>>

\* the retry timer fires
Retry ==
  /\ retryPending
  /\ retryPending' = FALSE
  /\ connect
  /\ Sends(Event("retry"), <<>>)
  /\ UNCHANGED <<token, myIdentity, frames, agentVars, ctlVars, camVars,
                 loadedChunks>>
  /\ UNCHANGED <<timeVars, sceneVars>>

\* onDisconnect: logged; no row event arrives afterwards
OnDisconnect ==
  /\ link \in {"open", "subscribed"}
  /\ link' = "closed"
  /\ Sends(Event("disconnect"), <<>>)
  /\ UNCHANGED <<conn, token, savedToken, retryPending, myIdentity, frames,
                 viewVars, agentVars, ctlVars, camVars, loadedChunks>>
  /\ UNCHANGED <<timeVars, sceneVars>>

(***************************************************************************)
(* Row events of the views.  The transport changes a view and runs the     *)
(* callbacks registered for the change in one step.                        *)
(***************************************************************************)
\* cache and playing after myAgent.onInsert
onInsert(agent) == [cache |-> Some(agent), playing |-> TRUE]

\* onUpdate keeping the row it had cached, which C11 tells from onUpdate
onUpdateStale(old, updated) ==
  [cache |-> Some(old), playing |-> playing,
   advanced |-> updated.lastActionAt > old.lastActionAt]

\* onUpdate with >= for >, which C13 tells from onUpdate
onUpdateAlways(old, updated) ==
  [cache |-> Some(updated), playing |-> playing,
   advanced |-> updated.lastActionAt >= old.lastActionAt]

\* cache and playing after myAgent.onUpdate; advanced: lastActionTime was set
\* to Date.now()
onUpdate(old, updated) ==
  [cache |-> Some(updated), playing |-> playing,
   advanced |-> updated.lastActionAt > old.lastActionAt]

\* onDelete keeping the cached row, which C29 tells from onDelete
onDeleteKeeping == [cache |-> myAgentCache, playing |-> FALSE, deathScreens |-> 1]

\* cache and playing after myAgent.onDelete, and its calls of showDeathScreen
onDelete == [cache |-> Null, playing |-> FALSE, deathScreens |-> 1]

\* a row of rows enters the presence view
AgentInsert(rows) ==
  /\ link = "subscribed"
  /\ myAgentView = <<>>
  /\ \E agent \in rows :
       /\ myAgentView' = <<agent>>
       /\ myAgentCache' = onInsert(agent).cache
       /\ playing' = onInsert(agent).playing
  /\ Sends(Event("agentInsert"), <<>>)
  /\ UNCHANGED <<connVars, nearbyItems, ctlVars, camVars, loadedChunks>>
  /\ UNCHANGED <<timeVars, sceneVars>>

\* the presence row changes to another of rows
AgentUpdate(rows) ==
  /\ link = "subscribed"
  /\ myAgentView # <<>>
  /\ \E updated \in rows \ {myAgentView[1]} :
       /\ myAgentView' = <<updated>>
       /\ myAgentCache' = onUpdate(myAgentView[1], updated).cache
       /\ playing' = onUpdate(myAgentView[1], updated).playing
       /\ lastActionTime' = IF onUpdate(myAgentView[1], updated).advanced
                            THEN now ELSE lastActionTime
  /\ UNCHANGED <<now, sceneVars>>
  /\ Sends(Event("agentUpdate"), <<>>)
  /\ UNCHANGED <<connVars, nearbyItems, ctlVars, camVars, loadedChunks>>

\* the presence row leaves the view
AgentDelete ==
  /\ link = "subscribed"
  /\ myAgentView # <<>>
  /\ myAgentView' = <<>>
  /\ myAgentCache' = onDelete.cache
  /\ playing' = onDelete.playing
  /\ Sends([Event("agentDelete") EXCEPT !.cached = myAgentCache # Null,
                                        !.deathScreens = onDelete.deathScreens],
           <<>>)
  /\ UNCHANGED <<connVars, nearbyItems, ctlVars, camVars, loadedChunks>>
  /\ UNCHANGED <<timeVars, sceneVars>>

\* a row of pool enters the item view of at most max rows, anywhere in its
\* iteration order
ItemInsert(pool, max) ==
  /\ link = "subscribed"
  /\ Len(nearbyItems) < max
  /\ \E item \in pool, i \in 1..(Len(nearbyItems) + 1) :
       /\ \A j \in DOMAIN nearbyItems : nearbyItems[j].id # item.id
       /\ nearbyItems' = InsertAt(nearbyItems, i, item)
  /\ Sends(Event("itemInsert"), <<>>)
  /\ UNCHANGED <<connVars, myAgentView, agentVars, ctlVars, camVars, loadedChunks>>
  /\ UNCHANGED <<timeVars, sceneVars>>

\* a row leaves the item view
ItemDelete ==
  /\ link = "subscribed"
  /\ \E i \in DOMAIN nearbyItems : nearbyItems' = RemoveAt(nearbyItems, i)
  /\ Sends(Event("itemDelete"), <<>>)
  /\ UNCHANGED <<connVars, myAgentView, agentVars, ctlVars, camVars, loadedChunks>>
  /\ UNCHANGED <<timeVars, sceneVars>>

(***************************************************************************)
(* Input events                                                            *)
(***************************************************************************)
\* a keydown handler that moves the cached agent north with every intent it
\* sends, which C10 tells from KeyDownHandler
KeyDownHandlerOptimistic(e, c) ==
  /\ selectedSlot' = c.selectedSlot
  /\ chatOpen' = c.chatOpen
  /\ chatText' = c.chatText
  /\ useMode' = c.useMode
  /\ showItemLabels' = c.showItemLabels
  /\ myAgentCache' =
       IF c.sent # <<>> /\ myAgentCache # Null
       THEN Some([myAgentCache[1] EXCEPT !.y = @ - 1])
       ELSE myAgentCache
  /\ Sends(KeyEvent(e), c.sent)
  /\ UNCHANGED <<connVars, viewVars, playing, camVars, loadedChunks>>
  /\ UNCHANGED <<timeVars, sceneVars>>

\* the state the keydown handler leaves, c being the controller part of it
KeyDownHandler(e, c) ==
  /\ selectedSlot' = c.selectedSlot
  /\ chatOpen' = c.chatOpen
  /\ chatText' = c.chatText
  /\ useMode' = c.useMode
  /\ showItemLabels' = c.showItemLabels
  /\ Sends(KeyEvent(e), c.sent)
  /\ UNCHANGED <<connVars, viewVars, agentVars, camVars, loadedChunks>>
  /\ UNCHANGED <<timeVars, sceneVars>>

\* document keydown, for a key event of events
KeyDown(events) ==
  \E e \in events : KeyDownHandler(e, keydown(e))

\* the input event of the chat input, which is shown while chat is open
ChatInput(texts) ==
  /\ chatOpen
  /\ \E text \in texts : chatText' = text
  /\ Sends(Event("chatInput"), <<>>)
  /\ UNCHANGED <<connVars, viewVars, agentVars, selectedSlot, chatOpen, useMode,
                 showItemLabels, camVars, loadedChunks>>
  /\ UNCHANGED <<timeVars, sceneVars>>

\* a click on a slot of the HUD (window.__selectSlot), which render draws
\* while an agent is cached and playing is set
SelectSlot(slots) ==
  /\ frames > 0
  /\ myAgentCache # Null
  /\ playing
  /\ \E i \in slots : selectedSlot' = i
  /\ Sends(Event("selectSlot"), <<>>)
  /\ UNCHANGED <<connVars, viewVars, agentVars, chatOpen, chatText, useMode,
                 showItemLabels, camVars, loadedChunks>>
  /\ UNCHANGED <<timeVars, sceneVars>>

\* playing and the intents sent by the play button's click handler, name
\* being the answer to the prompt
playClick(name) ==
  IF ~conn THEN [playing |-> playing, sent |-> <<>>]
  ELSE IF getMyAgent # Null THEN [playing |-> TRUE, sent |-> <<>>]
  ELSE IF name = "" THEN [playing |-> playing, sent |-> <<>>]
  ELSE [playing |-> TRUE, sent |-> <<RegisterIntent(name)>>]

PlayClick ==
  /\ \E name \in Names :
       /\ playing' = playClick(name).playing
       /\ Sends(Event("playClick"), playClick(name).sent)
  /\ UNCHANGED <<connVars, viewVars, myAgentCache, ctlVars, camVars, loadedChunks>>
  /\ UNCHANGED <<timeVars, sceneVars>>

MouseDown(points) ==
  /\ \E p \in points :
       IF ~playing
       THEN /\ drags < MaxDrags
            /\ drags' = drags + 1
            /\ dragging' = TRUE
            /\ dragStartX' = p[1]
            /\ dragStartY' = p[2]
            /\ camStartX' = camX
            /\ camStartY' = camY
       ELSE UNCHANGED <<dragging, dragStartX, dragStartY, camStartX, camStartY,
                        drags>>
  /\ Sends(Event("mousedown"), <<>>)
  /\ UNCHANGED <<connVars, viewVars, agentVars, ctlVars, camX, camY, zoom,
                 wheelTicks, loadedChunks>>
  /\ UNCHANGED <<timeVars, sceneVars>>

MouseMove(points) ==
  /\ \E p \in points :
       IF dragging
       THEN /\ camX' = QSub(camStartX, QDiv(QInt(p[1] - dragStartX), zoom))
            /\ camY' = QSub(camStartY, QDiv(QInt(p[2] - dragStartY), zoom))
       ELSE UNCHANGED <<camX, camY>>
  /\ Sends(PointerEvent("mousemove"), <<>>)
  /\ UNCHANGED <<connVars, viewVars, agentVars, ctlVars, zoom, dragging,
                 dragStartX, dragStartY, camStartX, camStartY, wheelTicks, drags,
                 loadedChunks>>
  /\ UNCHANGED <<timeVars, sceneVars>>

MouseUp ==
  /\ dragging' = FALSE
  /\ Sends(Event("mouseup"), <<>>)
  /\ UNCHANGED <<connVars, viewVars, agentVars, ctlVars, camX, camY, zoom,
                 dragStartX, dragStartY, camStartX, camStartY, wheelTicks, drags,
                 loadedChunks>>
  /\ UNCHANGED <<timeVars, sceneVars>>

\* the wheel handler without its clamp, which C17 tells from WheelZoom
WheelZoomUnclamped(z, down) ==
  QMul(z, IF down THEN Q(9, 10) ELSE Q(11, 10))

\* zoom after a wheel event; down: e.deltaY > 0
WheelZoom(z, down) ==
  QMax(Q(1, 4), QMin(QInt(4), QMul(z, IF down THEN Q(9, 10) ELSE Q(11, 10))))

\* the wheel event, at most max times in a run
Wheel(max) ==
  /\ wheelTicks < max
  /\ wheelTicks' = wheelTicks + 1
  /\ \E down \in BOOLEAN : zoom' = WheelZoom(zoom, down)
  /\ Sends(Event("wheel"), <<>>)
  /\ UNCHANGED <<connVars, viewVars, agentVars, ctlVars, camX, camY, dragging,
                 dragStartX, dragStartY, camStartX, camStartY, drags, loadedChunks>>
  /\ UNCHANGED <<timeVars, sceneVars>>

(***************************************************************************)
(* The render loop                                                         *)
(***************************************************************************)
\* a requested animation frame runs render (conn is set, so render does not
\* return early), which requests the next one
Frame ==
  /\ frames > 0
  /\ conn
  /\ \E r \in {render(myAgentView, myAgentCache, playing)} : Rendered("frame", r)
  /\ frames' = requestAnimationFrame(frames - 1)
  /\ UNCHANGED <<conn, link, token, savedToken, retryPending, myIdentity,
                 viewVars, ctlVars, zoom, dragging, dragStartX, dragStartY,
                 camStartX, camStartY, wheelTicks, drags>>
  /\ UNCHANGED <<now, call>>

\* floatingMessages after nearbyMessages.onInsert of a row sent at sentAt,
\* run at time t
onMessageInsert(msgs, msg, sentAt, t) ==
  LET msgAge == t - sentAt
  IN IF msgAge > MaxMsgAge THEN msgs
     ELSE Append(msgs, [text |-> msg.senderName \o ": " \o msg.text,
                        name |-> msg.senderName, x |-> msg.x, y |-> msg.y,
                        time |-> t])

\* a row of rows enters the message view, at one of times and while fewer
\* than max messages float
MessageInsert(rows, max, times) ==
  /\ link = "subscribed"
  /\ Len(floatingMessages) < max
  /\ now \in times
  /\ \E msg \in rows :
       floatingMessages' = onMessageInsert(floatingMessages, msg, now - msg.sentAgo, now)
  /\ Sends(Event("messageInsert"), <<>>)
  /\ UNCHANGED <<connVars, viewVars, agentVars, ctlVars, camVars, loadedChunks,
                 timeVars, call>>

\* time passes between two handlers, by one of steps and up to max
Elapse(steps, max) ==
  /\ \E step \in steps :
       /\ now + step <= max
       /\ now' = now + step
  /\ Sends(Event("elapse"), <<>>)
  /\ UNCHANGED <<connVars, viewVars, agentVars, ctlVars, camVars, loadedChunks,
                 lastActionTime, sceneVars>>

\* time passes between two handlers
Tick ==
  /\ now < MaxNow
  /\ now' = now + 1
  /\ Sends(Event("tick"), <<>>)
  /\ UNCHANGED <<connVars, viewVars, agentVars, ctlVars, camVars, loadedChunks,
                 lastActionTime, sceneVars>>

(***************************************************************************)
(* What render draws.  A step that calls one of these functions on its own *)
(* records the call in the variable call and leaves the program's state.   *)
(***************************************************************************)
progVars == <<connVars, viewVars, agentVars, ctlVars, camVars, chunkVars,
              timeVars, floatingMessages, obsVars>>

\* the visible bounds render computes for a canvas of width by height
VisibleBounds(cx, cy, z, width, height) ==
  LET halfW == QDiv(Q(width, 2), z)
      halfH == QDiv(Q(height, 2), z)
  IN [minTX |-> QFloor(QDiv(QSub(cx, halfW), QInt(TILE_SIZE))) - 1,
      maxTX |-> QCeil(QDiv(QAdd(cx, halfW), QInt(TILE_SIZE))) + 1,
      minTY |-> QFloor(QDiv(QSub(cy, halfH), QInt(TILE_SIZE))) - 1,
      maxTY |-> QCeil(QDiv(QAdd(cy, halfH), QInt(TILE_SIZE))) + 1]

\* the rows render collects in groundItems, in the view's iteration order
RECURSIVE groundItems(_, _)
groundItems(items, b) ==
  IF items = <<>> THEN <<>>
  ELSE LET item == Head(items)
       IN (IF item.carrier # "none" THEN <<>>
           ELSE IF item.x < b.minTX \/ item.x > b.maxTX
                     \/ item.y < b.minTY \/ item.y > b.maxTY THEN <<>>
           ELSE <<item>>) \o groundItems(Tail(items), b)

\* itemStacks after item is pushed on the stack of its position; the map keeps
\* its keys in the order they were first set, and the key is the pair (x, y)
\* the code writes as text
RECURSIVE StackPush(_, _)
StackPush(stacks, item) ==
  IF stacks = <<>> THEN <<[key |-> <<item.x, item.y>>, stack |-> <<item>>]>>
  ELSE IF Head(stacks).key = <<item.x, item.y>>
       THEN <<[Head(stacks) EXCEPT !.stack = Append(@, item)]>> \o Tail(stacks)
       ELSE <<Head(stacks)>> \o StackPush(Tail(stacks), item)

RECURSIVE itemStacks(_)
itemStacks(ground) ==
  IF ground = <<>> THEN <<>>
  ELSE StackPush(itemStacks(SubSeq(ground, 1, Len(ground) - 1)), ground[Len(ground)])

\* insert item into a sequence sorted by ascending id, after its equals
RECURSIVE InsertAsc(_, _)
InsertAsc(sorted, item) ==
  IF sorted = <<>> THEN <<item>>
  ELSE IF Head(sorted).id <= item.id
       THEN <<Head(sorted)>> \o InsertAsc(Tail(sorted), item)
       ELSE <<item>> \o sorted

\* stack.sort((a, b) => Number(a.id) - Number(b.id)), a stable sort
RECURSIVE SortAsc(_)
SortAsc(items) ==
  IF items = <<>> THEN <<>>
  ELSE InsertAsc(SortAsc(SubSeq(items, 1, Len(items) - 1)), items[Len(items)])

\* drawItem: the centre the item is drawn at
drawItem(item, stackIndex) ==
  LET stackOffset == 2
      offsetX == stackIndex * stackOffset
      offsetY == 0 - stackIndex * stackOffset
  IN [id |-> item.id, stackIndex |-> stackIndex,
      cx |-> item.x * TILE_SIZE + TILE_SIZE \div 2 + offsetX,
      cy |-> item.y * TILE_SIZE + TILE_SIZE \div 2 + offsetY]

\* the calls of drawItem for one stack, in order
DrawStack(stack) == [i \in DOMAIN stack |-> drawItem(stack[i], i - 1)]

\* the calls of drawItem for the stacks, in the map's order
RECURSIVE DrawStacks(_)
DrawStacks(stacks) ==
  IF stacks = <<>> THEN <<>>
  ELSE DrawStack(SortAsc(Head(stacks).stack)) \o DrawStacks(Tail(stacks))

\* the ground items render draws for the item view items and the bounds b
drawGroundItems(items, b) == DrawStacks(itemStacks(groundItems(items, b)))

\* render draws the ground items of an item view
DrawItems(pool, max, windows) ==
  /\ \E items \in ItemViews(pool, max), w \in windows :
       LET b == VisibleBounds(camX, camY, zoom, w[1], w[2])
       IN call' = [fn |-> "drawItems", items |-> items, bounds |-> b,
                   res |-> drawGroundItems(items, b)]
  /\ UNCHANGED progVars

\* the fog darkening the cells at a sum of distances above the radius, which
\* C22 tells from fogCells
fogCellsDiamond(agent, play, b) ==
  IF agent # Null /\ play
  THEN {c \in (b.minTX..b.maxTX) \X (b.minTY..b.maxTY) :
          LET dx == Abs(c[1] - agent[1].x)
              dy == Abs(c[2] - agent[1].y)
          IN dx + dy > VISIBILITY_RADIUS}
  ELSE {}

\* the cells (tx, ty) render darkens
fogCells(agent, play, b) ==
  IF agent # Null /\ play
  THEN {c \in (b.minTX..b.maxTX) \X (b.minTY..b.maxTY) :
          LET dx == Abs(c[1] - agent[1].x)
              dy == Abs(c[2] - agent[1].y)
          IN dx > VISIBILITY_RADIUS \/ dy > VISIBILITY_RADIUS}
  ELSE {}

\* render draws the fog, having set the camera for the agent of getMyAgent()
\* and playing; a cached agent comes with playing set, as every handler that
\* caches a row sets playing and every handler that clears playing clears the
\* cache
DrawFog(rows, windows) ==
  /\ \E agent \in {Null} \cup {Some(a) : a \in rows}, play \in BOOLEAN,
        w \in windows :
       /\ agent # Null => play
       /\ LET point == FocusPoint(agent, play)
              b == VisibleBounds(point[1], point[2], zoom, w[1], w[2])
          IN call' = [fn |-> "fog", agent |-> agent, playing |-> play,
                      bounds |-> b, res |-> fogCells(agent, play, b)]
  /\ UNCHANGED progVars

\* aliveBornAt after the loop over the rows of a view
RECURSIVE BornAtOf(_, _)
BornAtOf(map, rows) ==
  IF rows = <<>> THEN map
  ELSE LET a == Head(rows)
           born == getTag(a.tags, BORN_AT)
       IN BornAtOf(IF QLess(QInt(0), born) THEN MapSet(map, a.name, born) ELSE map,
                   Tail(rows))

\* aliveBornAt: the presence view first, nearbyAgents second
aliveBornAt(mine, nearby) == BornAtOf(BornAtOf(EmptyMap, mine), nearby)

\* getStreak reading bestStreak for every entry, which C23 tells from
\* getStreak
getStreakBest(e, alive, nowMs) == QInt(e.bestStreak)

\* getStreak of drawLeaderboard
getStreak(e, alive, nowMs) ==
  IF e.name \in DOMAIN alive /\ alive[e.name].n # 0
  THEN QSub(QInt(nowMs), alive[e.name])
  ELSE QInt(e.bestStreak)

\* insert e into a sequence sorted by descending streak, after its equals
RECURSIVE InsertByStreak(_, _, _, _)
InsertByStreak(sorted, e, alive, nowMs) ==
  IF sorted = <<>> THEN <<e>>
  ELSE IF QLess(getStreak(Head(sorted), alive, nowMs), getStreak(e, alive, nowMs))
       THEN <<e>> \o sorted
       ELSE <<Head(sorted)>> \o InsertByStreak(Tail(sorted), e, alive, nowMs)

\* entries.sort((a, b) => getStreak(b) - getStreak(a)), a stable sort
RECURSIVE SortByStreak(_, _, _)
SortByStreak(entries, alive, nowMs) ==
  IF entries = <<>> THEN <<>>
  ELSE InsertByStreak(SortByStreak(SubSeq(entries, 1, Len(entries) - 1), alive, nowMs),
                      entries[Len(entries)], alive, nowMs)

\* drawLeaderboard: the entries in the order they are listed
drawLeaderboard(mine, nearby, entries, nowMs) ==
  SortByStreak(entries, aliveBornAt(mine, nearby), nowMs)

\* render draws the leaderboard
DrawLeaderboard(mines, nearbys, pool, max, nowMs) ==
  /\ \E mine \in mines, nearby \in nearbys, entries \in EntryViews(pool, max) :
       call' = [fn |-> "leaderboard", mine |-> mine, nearby |-> nearby,
                entries |-> entries, now |-> nowMs,
                res |-> drawLeaderboard(mine, nearby, entries, nowMs)]
  /\ UNCHANGED progVars

\* drawAgent: the width of the HP bar's fill, for the agent's attribute text
hpBarFill(tags) ==
  LET hp == getTag(tags, HP)
      barW == 24
  IN QMul(QInt(barW), QDiv(Q(hp.n, hp.d), QInt(100)))

\* render draws an agent whose attribute text is made of the tokens of a
\* sequence
DrawHpBar(pool, max) ==
  /\ \E tokens \in TokenSeqs(pool, max) :
       call' = [fn |-> "hpBar", tags |-> JoinTokens(tokens),
                res |-> hpBarFill(JoinTokens(tokens))]
  /\ UNCHANGED progVars

\* a caller decodes the attribute text made of the tokens of a sequence
Decode(pool, max) ==
  /\ \E tokens \in TokenSeqs(pool, max) :
       call' = [fn |-> "parseTags", tokens |-> tokens, text |-> JoinTokens(tokens),
                res |-> parseTags(JoinTokens(tokens))]
  /\ UNCHANGED progVars

(***************************************************************************)
(* Specifications                                                          *)
(***************************************************************************)
\* every step of the program, on few inputs
Next ==
  \/ Load
  \/ OnConnect
  \/ OnApplied(CoreRows)
  \/ OnConnectError
  \/ Retry
  \/ OnDisconnect
  \/ AgentInsert(CoreRows)
  \/ AgentUpdate(CoreRows)
  \/ AgentDelete
  \/ ItemInsert(CoreItems, MaxItems)
  \/ ItemDelete
  \/ KeyDown(CoreKeys)
  \/ ChatInput(CoreTexts)
  \/ SelectSlot(CoreSlots)
  \/ PlayClick
  \/ MouseDown(CoreDown)
  \/ MouseMove(CoreMove)
  \/ MouseUp
  \/ Wheel(MaxWheel)
  \/ Frame
  \/ Tick

Spec == Init /\ [][Next]_vars

\* the action controller, in a session that connects
NextControl ==
  \/ Load
  \/ OnConnect
  \/ OnApplied(ControlRows)
  \/ AgentInsert(ControlRows)
  \/ AgentUpdate(ControlRows)
  \/ AgentDelete
  \/ ItemInsert(ControlItems, MaxItems)
  \/ ItemDelete
  \/ KeyDown(ControlKeys)
  \/ ChatInput(ChatTexts)
  \/ SelectSlot(HudSlots)
  \/ PlayClick
  \/ Frame

SpecControl == Init /\ [][NextControl]_vars

\* chat composition: the whole keyboard and the chat input next to the
\* presence view, carried items and the render loop
NextChat ==
  \/ Load
  \/ OnConnect
  \/ OnApplied(AgentRowsAt({<<0, 0>>}, 0))
  \/ AgentInsert(AgentRowsAt({<<0, 0>>}, 0))
  \/ AgentDelete
  \/ ItemInsert(CoreItems, MaxItems)
  \/ ItemDelete
  \/ KeyDown(ChatKeys)
  \/ ChatInput(CoreTexts)
  \/ PlayClick
  \/ Frame

SpecChat == Init /\ [][NextChat]_vars

\* keyboard, pointer and wheel next to the presence view and the render loop
NextInput ==
  \/ Load
  \/ OnConnect
  \/ OnApplied(CoreRows)
  \/ AgentInsert(CoreRows)
  \/ AgentUpdate(CoreRows)
  \/ AgentDelete
  \/ KeyDown(InputKeys)
  \/ PlayClick
  \/ MouseDown(CoreDown)
  \/ MouseMove(CoreMove)
  \/ MouseUp
  \/ Wheel(MaxWheel)
  \/ Frame

SpecInput == Init /\ [][NextInput]_vars

\* the chunk streamer: connection attempts and retry, the presence view on all
\* cells, keyboard, wheel and play button, and the render loop
NextStream ==
  \/ Load
  \/ OnConnect
  \/ OnApplied(StreamRows)
  \/ OnConnectError
  \/ Retry
  \/ OnDisconnect
  \/ AgentInsert(StreamRows)
  \/ AgentUpdate(StreamRows)
  \/ AgentDelete
  \/ KeyDown(InputKeys)
  \/ Wheel(MaxWheel)
  \/ PlayClick
  \/ Frame

SpecStream == Init /\ [][NextStream]_vars

\* the zoom: wheel events from the zoom factors of ZoomStarts, in a session
\* that connects and renders
NextZoom ==
  \/ Load
  \/ OnConnect
  \/ OnApplied(CoreRows)
  \/ Wheel(MaxZoomTicks)
  \/ Frame

SpecZoom == InitZoom /\ [][NextZoom]_vars

\* the take key: the item view with up to MaxGround rows of TakePool, the
\* agent at two cells
NextTake ==
  \/ Load
  \/ OnConnect
  \/ OnApplied(TakeRows)
  \/ AgentInsert(TakeRows)
  \/ AgentUpdate(TakeRows)
  \/ AgentDelete
  \/ ItemInsert(TakePool, MaxGround)
  \/ ItemDelete
  \/ KeyDown(TakeKeys)
  \/ PlayClick
  \/ Frame

SpecTake == Init /\ [][NextTake]_vars

\* the cooldown reference time: the presence view with rows of several
\* lastActionAt, input, the render loop and the clock
NextCooldown ==
  \/ Load
  \/ OnConnect
  \/ OnApplied(CooldownRows)
  \/ AgentInsert(CooldownRows)
  \/ AgentUpdate(CooldownRows)
  \/ AgentDelete
  \/ KeyDown(InputKeys)
  \/ MouseDown(CoreDown)
  \/ PlayClick
  \/ Frame
  \/ Tick

SpecCooldown == Init /\ [][NextCooldown]_vars

\* the item stacks: render's drawing of the ground items, for every iteration
\* order of up to MaxStack rows of the item view
NextStacks ==
  \/ DrawItems(StackPool, MaxStack, StackWindows)

SpecStacks == Init /\ [][NextStacks]_vars

\* the fog of war: render's darkening for agents on all cells, window sizes
\* and the zoom factors of ZoomStarts
NextFog ==
  \/ DrawFog(StreamRows, Windows)

SpecFog == InitZoom /\ [][NextFog]_vars

\* the leaderboard ranker, for every iteration order of up to MaxEntries rows
NextLeaderboard ==
  \/ DrawLeaderboard(LeaderMine, LeaderNearby, LeaderPool, MaxEntries, LeaderNow)

SpecLeaderboard == Init /\ [][NextLeaderboard]_vars

\* the attribute codec, on the texts of up to MaxTokens tokens
NextTags ==
  \/ Decode(TagTokens, MaxTokens)

SpecTags == Init /\ [][NextTags]_vars

\* the HP bar of drawAgent, on the texts of up to MaxTokens tokens
NextHpBar ==
  \/ DrawHpBar(HpTokens, MaxTokens)

SpecHpBar == Init /\ [][NextHpBar]_vars

\* the floating messages: rows of the message view arrive, the clock goes
\* and the render loop runs.  The browser runs a requested frame and the clock
\* does not stop.
NextMessages ==
  \/ Load
  \/ OnConnect
  \/ OnApplied(AgentRowsAt({<<0, 0>>}, 0))
  \/ MessageInsert(MessageRows, MaxMessages, ArrivalTimes)
  \/ Elapse(ClockSteps, MaxClock)
  \/ Frame

SpecMessages ==
  /\ Init
  /\ [][NextMessages]_vars
  /\ WF_vars(Frame)
  /\ WF_vars(Elapse(ClockSteps, MaxClock))

\* the render loop next to the connection attempts and retry, the presence
\* view, the keyboard and the play button; the browser runs a requested frame
NextLoop ==
  \/ Load
  \/ OnConnect
  \/ OnApplied(CoreRows)
  \/ OnConnectError
  \/ Retry
  \/ OnDisconnect
  \/ AgentInsert(CoreRows)
  \/ AgentUpdate(CoreRows)
  \/ AgentDelete
  \/ KeyDown(InputKeys)
  \/ PlayClick
  \/ Frame

SpecLoop == Init /\ [][NextLoop]_vars /\ WF_vars(Frame)

\* connection attempts: the load event is delivered, the transport ends an
\* attempt with onConnect or with onConnectError, and a set timer fires
SpecRetry ==
  /\ Init
  /\ [][NextLoop]_vars
  /\ WF_vars(Load)
  /\ WF_vars(OnConnect \/ OnConnectError)
  /\ WF_vars(Retry)

(***************************************************************************)
(* Properties.  ev is the event the last step handled, with the controller *)
(* state that step found; out is what the step sent.                       *)
(***************************************************************************)

\* C1 (as amended): in a playing state with chat closed, a directional key
\* that is not a repeat sends exactly one intent: a move intent in the key's
\* direction when useMode is not set, and, when useMode is set, a use intent
\* whose target is that direction (and no move intent), which clears useMode.
C1_DirectionalKeyMovesOrResolvesUse ==
  LET dir == IF ev.key \in {"w", "W", "ArrowUp"} THEN "north"
             ELSE IF ev.key \in {"s", "S", "ArrowDown"} THEN "south"
             ELSE IF ev.key \in {"a", "A", "ArrowLeft"} THEN "west"
             ELSE "east"
  IN (/\ ev.kind = "keydown"
      /\ ev.key \in {"w", "W", "ArrowUp", "s", "S", "ArrowDown",
                     "a", "A", "ArrowLeft", "d", "D", "ArrowRight"}
      /\ ~ev.repeat /\ ev.playing /\ ~ev.chatOpen)
     => IF ev.useMode
        THEN /\ Len(out) = 1
             /\ out[1].type = "use"
             /\ out[1].target = dir
             /\ ~useMode
        ELSE out = <<[type |-> "move", direction |-> dir]>>

\* C1, witness: ArrowUp pressed while playing, chat closed, useMode not set,
\* sent one move north
C1_MoveSent ==
  /\ ev.kind = "keydown" /\ ev.key = "ArrowUp"
  /\ ~ev.repeat /\ ev.playing /\ ~ev.chatOpen /\ ~ev.useMode
  /\ out = <<[type |-> "move", direction |-> "north"]>>

\* C1 as stated: in a playing state with chat closed, a directional key that
\* is not a repeat sends exactly one move intent in the key's direction,
\* whether or not useMode is set.
C1_DirectionalKeyAlwaysMoves ==
  LET dir == IF ev.key \in {"w", "W", "ArrowUp"} THEN "north"
             ELSE IF ev.key \in {"s", "S", "ArrowDown"} THEN "south"
             ELSE IF ev.key \in {"a", "A", "ArrowLeft"} THEN "west"
             ELSE "east"
  IN (/\ ev.kind = "keydown"
      /\ ev.key \in {"w", "W", "ArrowUp", "s", "S", "ArrowDown",
                     "a", "A", "ArrowLeft", "d", "D", "ArrowRight"}
      /\ ~ev.repeat /\ ev.playing /\ ~ev.chatOpen)
     => out = <<[type |-> "move", direction |-> dir]>>

\* C2: when the use key is pressed while playing with chat closed and useMode
\* not set, and the next event is a press of Escape, neither press sends an
\* intent and useMode is not set after the second.
C2_UseThenEscape ==
  [][ (/\ ev.kind = "keydown" /\ ev.key \in {"f", "F"}
       /\ ~ev.repeat /\ ev.playing /\ ~ev.chatOpen /\ ~ev.useMode
       /\ ev'.kind = "keydown" /\ ev'.key = "Escape" /\ ~ev'.repeat)
      => (out = <<>> /\ useMode /\ out' = <<>> /\ ~useMode') ]_vars

\* C2, witness: Escape pressed while playing with chat closed and useMode set
\* (by an earlier press of the use key) sent nothing and cleared useMode
C2_EscapeCancelled ==
  /\ ev.kind = "keydown" /\ ev.key = "Escape"
  /\ ~ev.repeat /\ ev.playing /\ ~ev.chatOpen /\ ev.useMode
  /\ out = <<>>
  /\ ~useMode

\* C3: when useMode is set and a resolving key is pressed (a directional key,
\* f or F for here, space for self; the controller at work: playing, chat
\* closed, not a repeat), exactly one use intent is sent; its target is the
\* key's target and its itemId the id of the item at position selectedSlot of
\* the caller's carried items, or 0 when selectedSlot is 0 or there is no such
\* item; useMode is not set afterwards.
C3_ResolvingKeySendsOneUse ==
  LET target == IF ev.key \in {"w", "W", "ArrowUp"} THEN "north"
                ELSE IF ev.key \in {"s", "S", "ArrowDown"} THEN "south"
                ELSE IF ev.key \in {"a", "A", "ArrowLeft"} THEN "west"
                ELSE IF ev.key \in {"d", "D", "ArrowRight"} THEN "east"
                ELSE IF ev.key \in {"f", "F"} THEN "here"
                ELSE "self"
      carried == SelectSeq(nearbyItems, LAMBDA item : item.carrier = "me")
      itemId == IF selectedSlot >= 1 /\ selectedSlot <= Len(carried)
                THEN carried[selectedSlot].id ELSE 0
  IN (/\ ev.kind = "keydown"
      /\ ev.key \in {"w", "W", "ArrowUp", "s", "S", "ArrowDown", "a", "A",
                     "ArrowLeft", "d", "D", "ArrowRight", "f", "F", " "}
      /\ ~ev.repeat /\ ev.playing /\ ~ev.chatOpen /\ ev.useMode)
     => /\ out = <<[type |-> "use", itemId |-> itemId, target |-> target]>>
        /\ ~useMode

\* C3, witness: with slot 1 selected and holding item 3, space pressed in
\* useMode sent one use intent for item 3 on self
C3_UseOfSelectedItemSent ==
  /\ ev.kind = "keydown" /\ ev.key = " "
  /\ ~ev.repeat /\ ev.playing /\ ~ev.chatOpen /\ ev.useMode
  /\ selectedSlot = 1
  /\ out = <<[type |-> "use", itemId |-> 3, target |-> "self"]>>
  /\ ~useMode

\* C4 as stated: whenever useMode is set (chat closed), in a playing state or
\* not, a press of Escape clears it.
C4_EscapeAlwaysCancels ==
  (/\ ev.kind = "keydown" /\ ev.key = "Escape"
   /\ ~ev.repeat /\ ~ev.chatOpen /\ ev.useMode)
  => ~useMode

\* C5: no generateChunk intent is sent twice for the same (chunkX, chunkY),
\* and a run of ensureChunksLoaded for a focus cell in a chunk it has run for
\* before sends nothing.
C5_NoChunkRequestedTwice ==
  /\ regenerated = {}
  /\ (ev.kind \in {"frame", "applied"} /\ ev.again) => out = <<>>

\* C5, witness: after chunks were requested around two focus chunks, a run for
\* a focus chunk requested for before sent nothing
C5_RepeatedRequestSilent ==
  /\ ev.kind = "frame" /\ ev.again
  /\ Cardinality(fociDone) >= 2
  /\ generated # {}
  /\ out = <<>>

\* C6 (as amended): the first run of ensureChunksLoaded, from the empty set,
\* sends exactly 81 = (2 * 4 + 1)^2 generateChunk intents for 81 distinct
\* chunks, 4 being the radius the function has; for focus cell (0,0) these are
\* the chunks of [-4,4] x [-4,4].
C6_FirstRequestSends81 ==
  (ev.kind \in {"frame", "applied"} /\ ev.first)
  => /\ Len(out) = 81
     /\ \A i \in DOMAIN out : out[i].type = "generateChunk"
     /\ Cardinality({<<out[i].chunkX, out[i].chunkY>> : i \in DOMAIN out}) = 81
     /\ ev.focus = <<0, 0>>
          => {<<out[i].chunkX, out[i].chunkY>> : i \in DOMAIN out}
               = (-4..4) \X (-4..4)

\* C6, witness: the first request, for focus cell (0,0), sent 81 intents
C6_FirstRequestAtOrigin ==
  /\ ev.kind \in {"frame", "applied"} /\ ev.first
  /\ ev.focus = <<0, 0>>
  /\ Len(out) = 81

\* C6 as stated: the first request, for focus cell (0,0), sends exactly 25
\* generateChunk intents (radius 2).
C6_FirstRequestSends25 ==
  (ev.kind \in {"frame", "applied"} /\ ev.first /\ ev.focus = <<0, 0>>)
  => Len(out) = 25

\* C7: in every step the set of requested chunk keys after the step includes
\* the set before it.
C7_RequestedOnlyGrows ==
  [][loadedChunks \subseteq loadedChunks']_vars

\* C7, witness: the set has grown past the 81 chunks of the first request
C7_GrownPastFirstWindow ==
  /\ ev.kind = "frame"
  /\ Cardinality(loadedChunks) > 81

\* C8: after a run of ensureChunksLoaded for focus cell (x,y), every chunk
\* (cx+dx, cy+dy) with dx, dy in -4..4 is in the requested set, cx and cy being
\* the chunks x and y lie in (16 * cx <= x < 16 * cx + 16, so cell -1 lies in
\* chunk -1); and the requested keys are exactly the "chunkX,chunkY" of the
\* intents sent.
C8_WindowRequestedUnderItsKeys ==
  /\ (ev.kind \in {"frame", "applied"})
       => \A dx \in -4..4, dy \in -4..4 :
            (ToString(ChunkOf(ev.focus[1]) + dx) \o ","
               \o ToString(ChunkOf(ev.focus[2]) + dy)) \in loadedChunks
  /\ loadedChunks = {ToString(c[1]) \o "," \o ToString(c[2]) : c \in generated}
  /\ \A i \in DOMAIN out :
       out[i].type = "generateChunk"
         => (ToString(out[i].chunkX) \o "," \o ToString(out[i].chunkY))
              \in loadedChunks

\* C8, witness: a request for focus cell (-1,0) marked chunk (-5,-4), the
\* corner of the window around chunk (-1,0)
C8_NegativeCellRequested ==
  /\ ev.kind \in {"frame", "applied"}
  /\ ev.focus = <<-1, 0>>
  /\ "-5,-4" \in loadedChunks
  /\ out # <<>>

\* C9 as stated: in every settled state, playing implies that the presence
\* view holds a row and the cached agent is not null.
C9_PlayingImpliesPresenceRow ==
  playing => (myAgentView # <<>> /\ myAgentCache # Null)

\* C10: a keydown, mouse or wheel event leaves myAgentCache as it was; a step
\* changes myAgentCache only if it handles an insert, update or delete of the
\* presence view or reads that view (the subscription's first rows, a frame).
C10_InputLeavesCacheAlone ==
  [][ /\ ev'.kind \in {"keydown", "mousedown", "mousemove", "mouseup", "wheel"}
        => myAgentCache' = myAgentCache
      /\ myAgentCache' # myAgentCache
        => ev'.kind \in {"agentInsert", "agentUpdate", "agentDelete", "applied",
                         "frame"} ]_vars

\* C10, witness: a move key pressed while an agent is cached sent its intent
\* and the cache still equals the presence row
C10_MoveKeyWithCachedAgent ==
  /\ ev.kind = "keydown" /\ ev.key = "w" /\ ev.playing
  /\ out = <<[type |-> "move", direction |-> "north"]>>
  /\ myAgentCache # Null
  /\ myAgentCache = <<myAgentView[1]>>

\* C11: the cached agent is the row of the presence view, which is the row
\* the last insert or update carried, and null when the view is empty, as it
\* is after a delete; the step of an insert leaves playing set and the step of
\* a delete leaves it not set, together with the cache.
C11_CacheIsLastPresenceRow ==
  /\ myAgentView = <<>> => myAgentCache = <<>>
  /\ myAgentView # <<>> => myAgentCache = <<myAgentView[1]>>
  /\ ev.kind = "agentInsert" => (myAgentCache # <<>> /\ playing)
  /\ ev.kind = "agentUpdate" => myAgentCache # <<>>
  /\ ev.kind = "agentDelete" => (myAgentCache = <<>> /\ ~playing)

\* C11, witness: after a delete and a new insert, an update to the row at cell
\* (16,-17) is what the cache holds
C11_UpdatedRowCached ==
  /\ ev.kind = "agentUpdate"
  /\ myAgentCache = <<[x |-> 16, y |-> -17, lastActionAt |-> 0]>>
  /\ playing

\* C12: the agent a run of render uses is the row of the presence view when
\* the view holds one (the focus cell is that row's cell and the camera its
\* centre) and none when the view is empty (the focus cell is the origin).
C12_RenderUsesPresenceRow ==
  (ev.kind \in {"frame", "applied"})
  => /\ myAgentView # <<>>
          => /\ myAgentCache = <<myAgentView[1]>>
             /\ ev.focus = <<myAgentView[1].x, myAgentView[1].y>>
     /\ myAgentView = <<>>
          => /\ myAgentCache = <<>>
             /\ ev.focus = <<0, 0>>

\* C12, witness: a frame that follows an update of the presence row to cell
\* (16,-17) focuses on that cell
C12_FrameOnUpdatedRow ==
  /\ ev.kind = "frame"
  /\ myAgentView = <<[x |-> 16, y |-> -17, lastActionAt |-> 0]>>
  /\ ev.focus = <<16, -17>>

\* C13: a step sets lastActionTime to the current time when it is an update
\* of the presence row to a strictly greater lastActionAt, and no other step
\* changes lastActionTime: not an update to an equal or lower lastActionAt,
\* not an insert, a delete, an input event, a frame or the passing of time.
C13_CooldownStartsOnAdvance ==
  [][ IF /\ ev'.kind = "agentUpdate"
         /\ myAgentView'[1].lastActionAt > myAgentView[1].lastActionAt
      THEN lastActionTime' = now
      ELSE lastActionTime' = lastActionTime ]_vars

\* C13, witness: at time 3 an update to lastActionAt 1 has just set
\* lastActionTime to 3
C13_AdvanceObserved ==
  /\ ev.kind = "agentUpdate"
  /\ myAgentView[1].lastActionAt = 1
  /\ now = 3
  /\ lastActionTime = 3

\* C14 as stated: while an agent is cached and playing is set, no drag is in
\* progress, and a mousemove event leaves the camera focus as it found it.
C14_FollowExcludesDrag ==
  (myAgentCache # <<>> /\ playing)
  => /\ ~dragging
     /\ ev.kind = "mousemove" => (camX = ev.camX /\ camY = ev.camY)

\* C15 as stated: a frame drawn while no agent is followed and a drag is in
\* progress leaves the camera focus where the drag put it.
C15_FreeFocusKept ==
  (ev.kind = "frame" /\ ~(myAgentCache # <<>> /\ playing) /\ dragging)
  => (camX = ev.camX /\ camY = ev.camY)

\* C16: after a run of render with an agent cached and playing set, the camera
\* focus is the centre of the agent's cell, (x * 32 + 16, y * 32 + 16).
C16_FollowFocusIsCellCentre ==
  (ev.kind \in {"frame", "applied"} /\ myAgentCache # <<>> /\ playing)
  => /\ camX = [n |-> myAgentCache[1].x * 32 + 16, d |-> 1]
     /\ camY = [n |-> myAgentCache[1].y * 32 + 16, d |-> 1]

\* C16, witness: after a drag, a frame with the agent at cell (16,-17) has the
\* focus at (528, -528)
C16_FollowAfterDrag ==
  /\ ev.kind = "frame"
  /\ drags > 0
  /\ playing
  /\ myAgentCache = <<[x |-> 16, y |-> -17, lastActionAt |-> 0]>>
  /\ camX = [n |-> 528, d |-> 1]
  /\ camY = [n |-> -528, d |-> 1]

\* C17: the zoom factor lies in [1/4, 4] in every state, and a wheel event
\* leaves it at the zoom before the event times 9/10 (scroll down) or 11/10
\* (scroll up), replaced by 4 when that is greater than 4 and by 1/4 when it is
\* less than 1/4.
C17_ZoomClamped ==
  /\ [](zoom.d > 0 /\ zoom.d <= 4 * zoom.n /\ zoom.n <= 4 * zoom.d)
  /\ [][ ev'.kind = "wheel"
         => \E f \in {9, 11} :
              IF f * zoom.n > 40 * zoom.d THEN zoom' = [n |-> 4, d |-> 1]
              ELSE IF 4 * f * zoom.n < 10 * zoom.d THEN zoom' = [n |-> 1, d |-> 4]
              ELSE zoom'.n * 10 * zoom.d = f * zoom.n * zoom'.d ]_vars

\* C17, witness: after three wheel events from zoom 4 (down, up, up: 3.6, 3.96,
\* 4.356) the zoom is back at 4
C17_ClampedAtFour ==
  /\ ev.kind = "wheel"
  /\ wheelTicks = 3
  /\ zoom = [n |-> 4, d |-> 1]

\* C18 as stated: a keydown event that is a repeat sends no intent and leaves
\* selectedSlot, useMode, chatOpen and chatText as it found them.
C18_RepeatIgnored ==
  (ev.kind = "keydown" /\ ev.repeat)
  => /\ out = <<>>
     /\ selectedSlot = ev.slot
     /\ useMode = ev.useMode
     /\ chatOpen = ev.chatOpen
     /\ chatText = ev.chatText

\* C19: on the take key (playing, chat closed, useMode not set, not a repeat)
\* the candidates are the rows of the item view with no carrier, on the cached
\* agent's cell, with neither the blocking nor the rooted flag; with a cached
\* agent and a candidate, exactly one take intent is sent, for the greatest
\* candidate id; otherwise nothing is sent.
C19_TakeGreatestCandidate ==
  LET cand == {i \in DOMAIN nearbyItems :
                 /\ nearbyItems[i].carrier = "none"
                 /\ nearbyItems[i].x = myAgentCache[1].x
                 /\ nearbyItems[i].y = myAgentCache[1].y
                 /\ nearbyItems[i].tags = <<>>}
      ids == {nearbyItems[i].id : i \in cand}
  IN (/\ ev.kind = "keydown" /\ ev.key \in {"e", "E"}
      /\ ~ev.repeat /\ ev.playing /\ ~ev.chatOpen /\ ~ev.useMode)
     => IF myAgentCache = <<>> THEN out = <<>>
        ELSE IF cand = {} THEN out = <<>>
        ELSE out = <<[type |-> "take",
                      itemId |-> CHOOSE m \in ids : \A k \in ids : k <= m]>>

\* C19, witness: with items 1 and 5 on the agent's cell, in this order in the
\* view, the take key sent a take intent for 5
C19_NewestTaken ==
  /\ ev.kind = "keydown" /\ ev.key = "e"
  /\ Len(nearbyItems) = 2
  /\ nearbyItems[1].id = 1 /\ nearbyItems[2].id = 5
  /\ out = <<[type |-> "take", itemId |-> 5]>>

\* C20: with chat open, Enter sends exactly one say intent with the text
\* without its leading and trailing spaces when that is not empty, and nothing
\* when it is; Escape sends nothing; after either chat is closed and the text
\* is empty.
C20_ChatCommitOrDiscard ==
  LET t == ev.chatText
      inked == {i \in DOMAIN t : t[i] # " "}
      trimmed == IF inked = {} THEN <<>>
                 ELSE SubSeq(t, CHOOSE a \in inked : \A i \in inked : a <= i,
                                CHOOSE b \in inked : \A i \in inked : i <= b)
  IN (ev.kind = "keydown" /\ ev.chatOpen /\ ev.key \in {"Enter", "Escape"})
     => /\ ~chatOpen
        /\ chatText = <<>>
        /\ out = IF ev.key = "Enter" /\ trimmed # <<>>
                 THEN <<[type |-> "say", text |-> trimmed]>>
                 ELSE <<>>

\* C20, witness: Enter on the text " a b" sent one say intent with "a b"
C20_TrimmedTextSaid ==
  /\ ev.kind = "keydown" /\ ev.key = "Enter" /\ ev.chatOpen
  /\ ev.chatText = <<" ", "a", " ", "b">>
  /\ out = <<[type |-> "say", text |-> <<"a", " ", "b">>]>>
  /\ ~chatOpen

\* C21 as stated: the ground items of a cell are drawn in ascending order of
\* identifier, each with the stack index that is its rank in that order (the
\* number of ground items of the cell with a smaller identifier), whatever the
\* order the view iterates in, and an item of index i is drawn i steps up and
\* to the left of the cell's centre.
C21_StackedUpLeftByRank ==
  call.fn = "drawItems" =>
    LET b == call.bounds
        ground ==
          {call.items[i] : i \in {j \in DOMAIN call.items :
             /\ call.items[j].carrier = "none"
             /\ call.items[j].x >= b.minTX /\ call.items[j].x <= b.maxTX
             /\ call.items[j].y >= b.minTY /\ call.items[j].y <= b.maxTY}}
        rank(item) ==
          Cardinality({o \in ground : o.x = item.x /\ o.y = item.y /\ o.id < item.id})
    IN /\ Len(call.res) = Cardinality(ground)
       /\ \A item \in ground :
            \E k \in DOMAIN call.res :
              /\ call.res[k].id = item.id
              /\ call.res[k].stackIndex = rank(item)
              /\ call.res[k].cx = item.x * 32 + 16 - 2 * rank(item)
              /\ call.res[k].cy = item.y * 32 + 16 - 2 * rank(item)
              /\ \A l \in DOMAIN call.res :
                   (l < k /\ \E o \in ground : o.id = call.res[l].id /\ o.x = item.x
                                                /\ o.y = item.y)
                     => call.res[l].id < item.id

\* C22: with a controlled agent, a cell of the visible rectangle is darkened
\* if and only if its Chebyshev distance max(|dx|, |dy|) from the agent's cell
\* is above 3, and no cell outside the rectangle is; without a controlled
\* agent no cell is darkened.
C22_FogBeyondChebyshevRadius ==
  call.fn = "fog" =>
    LET b == call.bounds
        rect == (b.minTX..b.maxTX) \X (b.minTY..b.maxTY)
        dist(c) ==
          LET dx == IF c[1] < call.agent[1].x THEN call.agent[1].x - c[1]
                    ELSE c[1] - call.agent[1].x
              dy == IF c[2] < call.agent[1].y THEN call.agent[1].y - c[2]
                    ELSE c[2] - call.agent[1].y
          IN IF dx > dy THEN dx ELSE dy
    IN IF call.agent = <<>> THEN call.res = {}
       ELSE /\ call.res \subseteq rect
            /\ \A c \in rect : c \in call.res <=> dist(c) > 3

\* C22, witness: with the agent at (0,0), cell (3,3) is shown undarkened and
\* cell (4,0) darkened
C22_FogAroundOrigin ==
  /\ call.fn = "fog"
  /\ call.agent # <<>>
  /\ call.agent[1].x = 0 /\ call.agent[1].y = 0
  /\ call.bounds.minTX <= 0 /\ call.bounds.maxTX >= 4
  /\ call.bounds.minTY <= 0 /\ call.bounds.maxTY >= 3
  /\ <<3, 3>> \notin call.res
  /\ <<4, 0>> \in call.res

\* C23: the leaderboard lists its entries by descending ranking key, entries
\* of equal key in their original order; the key of an entry whose name is
\* that of a visible agent (controlled or other) with positive born_at is
\* now - born_at, and otherwise the entry's bestStreak.
C23_RankedByLiveOrBestStreak ==
  call.fn = "leaderboard" =>
    LET visible == {call.mine[i] : i \in DOMAIN call.mine}
                     \cup {call.nearby[i] : i \in DOMAIN call.nearby}
        born(a) == getTag(a.tags, BORN_AT).n
        live(e) == {a \in visible : a.name = e.name /\ born(a) > 0}
        key(e) == IF live(e) # {}
                  THEN call.now - born(CHOOSE a \in live(e) : TRUE)
                  ELSE e.bestStreak
        pos(e) == CHOOSE i \in DOMAIN call.entries : call.entries[i] = e
    IN /\ Len(call.res) = Len(call.entries)
       /\ {call.res[i] : i \in DOMAIN call.res}
            = {call.entries[i] : i \in DOMAIN call.entries}
       /\ \A i, j \in DOMAIN call.res :
            i < j =>
              \/ key(call.res[i]) > key(call.res[j])
              \/ /\ key(call.res[i]) = key(call.res[j])
                 /\ pos(call.res[i]) < pos(call.res[j])

\* C23, witness: A is alive for 120000 and listed after B in the view; B with
\* bestStreak 90000 is ranked below A
C23_LiveAboveAbsent ==
  /\ call.fn = "leaderboard"
  /\ call.mine # <<>>
  /\ getTag(call.mine[1].tags, BORN_AT).n = 80000
  /\ call.entries = <<[name |-> "B", bestStreak |-> 90000],
                      [name |-> "A", bestStreak |-> 50000]>>
  /\ call.res = <<[name |-> "A", bestStreak |-> 50000],
                  [name |-> "B", bestStreak |-> 90000]>>

\* The entry the rule of C24 gives a token: a token without ":" is a flag
\* keyed by the token; a token whose text after the first ":" parses to a
\* number maps the text before the ":" to the number; any other token is a
\* flag keyed by the whole token.
C24_Entry(tok) ==
  LET colons == {i \in DOMAIN tok : tok[i] = ":"}
      first == CHOOSE i \in colons : \A j \in colons : i <= j
      num == ParseFloat(SubSeq(tok, first + 1, Len(tok)))
  IN IF colons = {} THEN [key |-> tok, value |-> Flag]
     ELSE IF ~num.nan
       THEN [key |-> SubSeq(tok, 1, first - 1), value |-> Num(num.n, num.d)]
     ELSE [key |-> tok, value |-> Flag]

\* the map the rule gives the tokens at the indices of idx, a later token
\* replacing an earlier entry of the same key
C24_Decoded(tokens, idx) ==
  LET keys == {C24_Entry(tokens[i]).key : i \in idx}
      last(k) == CHOOSE i \in idx :
                   /\ C24_Entry(tokens[i]).key = k
                   /\ \A j \in idx : C24_Entry(tokens[j]).key = k => j <= i
  IN [k \in keys |-> C24_Entry(tokens[last(k)]).value]

\* C24 (as amended): decoding maps every token that is not empty by the one
\* rule (flag keyed by the token without ":", number under the text before
\* the first ":" when the text after it parses to a number, flag keyed by the
\* whole token otherwise), a later token replacing an earlier entry of the
\* same key; empty tokens add nothing, and the empty text decodes to the
\* empty map.
C24_DecodesTokensThatAreNotEmpty ==
  call.fn = "parseTags" =>
    call.res = C24_Decoded(call.tokens,
                           {i \in DOMAIN call.tokens : call.tokens[i] # <<>>})

\* C24, witness: x:abc decodes to the single flag keyed x:abc
C24_WholeTokenFlag ==
  /\ call.fn = "parseTags"
  /\ call.text = <<"x", ":", "a", "b", "c">>
  /\ DOMAIN call.res = {<<"x", ":", "a", "b", "c">>}
  /\ call.res[<<"x", ":", "a", "b", "c">>].flag

\* C24 as stated: decoding maps every token by the one rule, a later token
\* replacing an earlier entry of the same key, and the empty text decodes to
\* the empty map.
C24_DecodesEveryToken ==
  call.fn = "parseTags" =>
    IF call.text = <<>> THEN DOMAIN call.res = {}
    ELSE call.res = C24_Decoded(call.tokens, DOMAIN call.tokens)

\* C25 as stated: for every hp value, above 100 and below 0 included, the
\* fill width of the HP bar lies between 0 and the full bar width of 24.
C25_FillWithinBar ==
  call.fn = "hpBar" =>
    /\ call.res.n >= 0
    /\ call.res.n <= 24 * call.res.d

\* C26: a run of render at time now leaves exactly the floating messages it
\* found with now - time <= 5000, in their order, so none older than 5000 ms
\* is left and none younger is removed; and with frames running and the clock
\* going, the messages created at any one time are eventually all removed.
C26_MessagesPrunedByAge ==
  /\ [][ ev'.kind \in {"frame", "applied"} =>
           floatingMessages' =
             SelectSeq(floatingMessages, LAMBDA m : now - m.time <= 5000) ]_vars
  /\ \A t \in ArrivalTimes :
       (\E i \in DOMAIN floatingMessages : floatingMessages[i].time = t)
         ~> (\A i \in DOMAIN floatingMessages : floatingMessages[i].time # t)

\* C26, witness: a frame found two messages, removed the one of age 5001 and
\* left the one of age 0
C26_OldPrunedYoungKept ==
  /\ ev.kind = "frame"
  /\ Len(ev.messages) = 2
  /\ now - ev.messages[1].time = 5001
  /\ floatingMessages = <<ev.messages[2]>>
  /\ now - floatingMessages[1].time = 0

\* C27: there is never more than one frame request pending; every run of
\* render, the first one from onApplied and every frame after it, leaves
\* exactly one request pending, whatever the connection, the presence view
\* and the input do; and once the loop has started frames run again and
\* again.
C27_FrameFollowsFrame ==
  /\ [](frames <= 1)
  /\ [](ev.kind \in {"applied", "frame"} => frames = 1)
  /\ (<>[](frames = 0) \/ []<><<Frame>>_vars)

\* C27, witness: a frame has run right after a frame, while spectating on a
\* closed connection, and one request is pending
C27_FrameAfterFrame ==
  /\ ev.kind = "frame"
  /\ ev.turn
  /\ ~playing
  /\ link = "closed"
  /\ frames = 1


\* C28 as stated: a key press handled while playing is false sends no move,
\* take, drop, use or say intent, also when the presence row was deleted while
\* chat was open or a use was pending.
C28_NoIntentFromKeyWhileNotPlaying ==
  (ev.kind = "keydown" /\ ~ev.playing)
    => \A i \in DOMAIN out :
         out[i].type \notin {"move", "take", "drop", "use", "say"}


\* C29: the death screen is shown once by the step that deletes the presence
\* row, which found an agent cached, and by no other step: the poll of the
\* frames that follow finds the cache already cleared and does not show it
\* again, and no step shows it without an agent cached.
C29_DeathScreenOncePerDeletion ==
  /\ ev.deathScreens = IF ev.kind = "agentDelete" THEN 1 ELSE 0
  /\ ev.deathScreens > 0 => ev.cached

\* C29, witness: the presence row of a cached agent was deleted and the
\* callback showed the death screen once; the cache is cleared for the poll
C29_DeletionShownByCallback ==
  /\ ev.kind = "agentDelete"
  /\ ev.cached
  /\ ev.deathScreens = 1
  /\ myAgentCache = Null
  /\ myAgentView = <<>>
  /\ frames = 1


\* C30: a key press other than Enter and Escape handled while chat is open
\* sends no intent and leaves selectedSlot, useMode and chatOpen as they were;
\* and chat opens only by a key press that found playing set and useMode not
\* set.
C30_ChatSwallowsOtherKeys ==
  /\ [](/\ (ev.kind = "keydown" /\ ev.chatOpen
             /\ ev.key \notin {"Enter", "Escape"})
           => /\ out = <<>>
              /\ selectedSlot = ev.slot
              /\ useMode = ev.useMode
              /\ chatOpen
        /\ (ev.kind = "keydown" /\ ~ev.chatOpen /\ chatOpen)
           => ev.playing /\ ~ev.useMode)
  /\ [][(~chatOpen /\ chatOpen')
         => (playing /\ ~useMode /\ ev'.kind = "keydown")]_vars

\* C30, witness: with chat open and the agent playing, the key w was pressed:
\* nothing was sent and chat is still open
C30_MoveKeySwallowed ==
  /\ ev.kind = "keydown"
  /\ ev.key = "w"
  /\ ev.chatOpen
  /\ ev.playing
  /\ conn
  /\ out = <<>>
  /\ chatOpen


\* C31: a failed attempt sets the retry timer exactly when the attempt read a
\* saved token at its start, and then the token is removed from storage; while
\* the timer is set no token is stored; after a retry no failure sets the timer
\* again, so a chain of failures makes at most one retry; and eventually no
\* attempt is under way and no retry is pending, for good.
C31_RetryTerminates ==
  /\ [][(link = "connecting" /\ link' = "failed")
         => /\ retryPending' = savedToken
            /\ savedToken => ~token']_vars
  /\ [](retryPending => ~token /\ link = "failed")
  /\ [](ev.kind = "retry" => [](~retryPending))
  /\ <>[](~retryPending /\ link \notin {"none", "connecting"})

\* C31, witness: the attempt that read a saved token failed, the retry it set
\* has fired, and the attempt it started read no token
C31_RetriedWithoutToken ==
  /\ ev.kind = "retry"
  /\ link = "connecting"
  /\ ~savedToken
  /\ ~token
  /\ ~retryPending

====
